---- MODULE Spec2Model ----
(***************************************************************************)
(* Model of the risk-scoring engine of Alerta POA                          *)
(* (src/modules/security_analysis.py) and of the neighbourhood-name        *)
(* mapping (src/modules/mapping_utils.py).                                 *)
(*                                                                         *)
(* A DataFrame is a record [columns, rows]: the set of its column names    *)
(* and the bag (multiset) of its rows; filtering, counting and summing     *)
(* ignore the order of the rows, and a row carries its position in the     *)
(* field ordem for unique(), which lists values by first appearance.       *)
(* A string is a record [txt, caso, pad]: its upper-cased and trimmed text,*)
(* its letter case and whether it has surrounding whitespace; str.upper    *)
(* and str.strip act on the last two fields.  Weights in kilograms are     *)
(* integers of grams and every float is an exact fraction <<num, den>>.    *)
(* geojson_data is the GeoJSON object held by the module-level             *)
(* RiskMapGenerator of src/modules/visualization.py: the sequence of the   *)
(* properties dicts of its features, each a function from keys to values.  *)
(* df_seguranca is the table load_security_index_data() reads from         *)
(* data/indice_seguranca_bairros.csv: its columns and the sequence of its  *)
(* rows in file order, empty when there is no file.                        *)
(***************************************************************************)
EXTENDS Bags, FiniteSets, Integers, Sequences, TLC

VARIABLES df_crimes, df_operacoes, bairro, bairros_selecionados, geojson_data, df_seguranca, pc, result

vars == <<df_crimes, df_operacoes, bairro, bairros_selecionados, geojson_data, df_seguranca, pc, result>>

(***************************************************************************)
(* Strings                                                                 *)
(***************************************************************************)
Str(t, c, p) == [txt |-> t, caso |-> c, pad |-> p]

\* a missing value (None / NaN) in a column or an argument
NaN == [txt |-> "", caso |-> "nan", pad |-> FALSE]

pd_isna(s) == s.caso = "nan"

\* str.upper(): every letter becomes upper case
str_upper(s) == IF pd_isna(s) THEN s ELSE [s EXCEPT !.caso = "upper"]

\* str.strip(): leading and trailing whitespace is removed
str_strip(s) == IF pd_isna(s) THEN s ELSE [s EXCEPT !.pad = FALSE]

\* truth value of a string: only the empty string is falsy
str_bool(s) == ~(s.txt = "" /\ s.pad = FALSE)

\* == on two column values: a missing value equals nothing
str_eq(a, b) == ~pd_isna(a) /\ ~pd_isna(b) /\ a = b

Desconhecido == Str("DESCONHECIDO", "title", FALSE)

(***************************************************************************)
(* map_bairro_name: the dict literal, entry by entry in source order       *)
(***************************************************************************)
mapping ==
  <<
    <<"CENTRO HISTÓRICO", "CENTRO HISTÓRICO">>,
    <<"CENTRO HISTORICO", "CENTRO HISTÓRICO">>,
    <<"CENTRO", "CENTRO HISTÓRICO">>,
    <<"CIDADE BAIXA", "CIDADE BAIXA">>,
    <<"FLORESTA", "FLORESTA">>,
    <<"AZENHA", "AZENHA">>,
    <<"PRAIA DE BELAS", "PRAIA DE BELAS">>,
    <<"MENINO DEUS", "MENINO DEUS">>,
    <<"SANTANA", "SANTANA">>,
    <<"RIO BRANCO", "RIO BRANCO">>,
    <<"BONFIM", "BONFIM">>,
    <<"NAVEGANTES", "NAVEGANTES">>,
    <<"HUMAITÁ", "HUMAITÁ">>,
    <<"FARRAPOS", "FARRAPOS">>,
    <<"SÃO GERALDO", "SÃO GERALDO">>,
    <<"SÃO JOSÉ", "VILA SÃO JOSÉ">>,
    <<"MARCÍLIO DIAS", "MARCÍLIO DIAS">>,
    <<"AUXILIADORA", "AUXILIADORA">>,
    <<"MOINHOS DE VENTO", "MOINHOS DE VENTO">>,
    <<"MONT SERRAT", "MONT SERRAT">>,
    <<"INDEPENDÊNCIA", "INDEPENDÊNCIA">>,
    <<"HIGIENÓPOLIS", "HIGIENÓPOLIS">>,
    <<"BOM FIM", "BOM FIM">>,
    <<"JARDIM BOTÂNICO", "JARDIM BOTÂNICO">>,
    <<"JARDIM BOTANICO", "JARDIM BOTÂNICO">>,
    <<"RIO BRANCO", "RIO BRANCO">>,
    <<"PETRÓPOLIS", "PETRÓPOLIS">>,
    <<"PETROPOLIS", "PETRÓPOLIS">>,
    <<"TRÊS FIGUEIRAS", "TRÊS FIGUEIRAS">>,
    <<"TRES FIGUEIRAS", "TRÊS FIGUEIRAS">>,
    <<"CHÁCARA DAS PEDRAS", "CHÁCARA DAS PEDRAS">>,
    <<"CHACARA DAS PEDRAS", "CHÁCARA DAS PEDRAS">>,
    <<"VILA MADALENA", "VILA MADALENA">>,
    <<"BELA VISTA", "BELA VISTA">>,
    <<"CAVALHADA", "CAVALHADA">>,
    <<"CRISTAL", "CRISTAL">>,
    <<"IPANEMA", "IPANEMA">>,
    <<"NONOAI", "NONOAI">>,
    <<"SERRARIA", "SERRARIA">>,
    <<"VILA NOVA", "VILA NOVA">>,
    <<"TERESÓPOLIS", "TERESÓPOLIS">>,
    <<"TERESOPOLIS", "TERESÓPOLIS">>,
    <<"PARTENON", "PARTENON">>,
    <<"LOMBA DO PINHEIRO", "LOMBA DO PINHEIRO">>,
    <<"RESTINGA", "RESTINGA">>,
    <<"BELÉM NOVO", "BELÉM NOVO">>,
    <<"BELEM NOVO", "BELÉM NOVO">>,
    <<"BELÉM VELHO", "BELÉM VELHO">>,
    <<"BELEM VELHO", "BELÉM VELHO">>,
    <<"GLORIA", "GLÓRIA">>,
    <<"GLÓRIA", "GLÓRIA">>,
    <<"CRUZEIRO", "CRUZEIRO">>,
    <<"SARANDI", "SARANDI">>,
    <<"RUBEM BERTA", "RUBEM BERTA">>,
    <<"ANCHIETA", "ANCHIETA">>,
    <<"BOA VISTA", "BOA VISTA">>,
    <<"MARIO QUINTANA", "MÁRIO QUINTANA">>,
    <<"MÁRIO QUINTANA", "MÁRIO QUINTANA">>,
    <<"PASSO DA AREIA", "PASSO DA AREIA">>,
    <<"VILA IPIRANGA", "VILA IPIRANGA">>,
    <<"JARDIM CARVALHO", "JARDIM CARVALHO">>,
    <<"JARDIM LINDÓIA", "JARDIM LINDÓIA">>,
    <<"JARDIM LINDOIA", "JARDIM LINDÓIA">>,
    <<"JARDIM SÃO PEDRO", "JARDIM SÃO PEDRO">>,
    <<"JARDIM SAO PEDRO", "JARDIM SÃO PEDRO">>,
    <<"LAMI", "LAMI">>,
    <<"ABERTA DOS MORROS", "ABERTA DOS MORROS">>,
    <<"AGRONOMIA", "AGRONOMIA">>,
    <<"ALTO PETRÓPOLIS", "ALTO PETRÓPOLIS">>,
    <<"ALTO PETROPOLIS", "ALTO PETRÓPOLIS">>,
    <<"ARQUIPÉLAGO", "ARQUIPÉLAGO">>,
    <<"ARQUIPELAGO", "ARQUIPÉLAGO">>,
    <<"ASSUNÇÃO", "ASSUNÇÃO">>,
    <<"ASSUNCAO", "ASSUNÇÃO">>,
    <<"CAMAQUÃ", "CAMAQUÃ">>,
    <<"CAMAQUA", "CAMAQUÃ">>,
    <<"CAMPO NOVO", "CAMPO NOVO">>,
    <<"CAPELA", "CAPELA">>,
    <<"CASCATA", "CASCATA">>,
    <<"CORONEL APARÍCIO BORGES", "CORONEL APARÍCIO BORGES">>,
    <<"CORONEL APARICIO BORGES", "CORONEL APARÍCIO BORGES">>,
    <<"ESPÍRITO SANTO", "ESPÍRITO SANTO">>,
    <<"ESPIRITO SANTO", "ESPÍRITO SANTO">>,
    <<"EXTREMA", "EXTREMA">>,
    <<"GUARUJÁ", "GUARUJÁ">>,
    <<"GUARUJA", "GUARUJÁ">>,
    <<"HÍPICA", "HÍPICA">>,
    <<"HIPICA", "HÍPICA">>,
    <<"ILHA DA PINTADA", "ILHA DA PINTADA">>,
    <<"ILHA DAS FLORES", "ILHA DAS FLORES">>,
    <<"ILHA DO PAVÃO", "ILHA DO PAVÃO">>,
    <<"ILHA DO PAVAO", "ILHA DO PAVÃO">>,
    <<"IPANEMA", "IPANEMA">>,
    <<"JARDIM EUROPA", "JARDIM EUROPA">>,
    <<"JARDIM FLORESTA", "JARDIM FLORESTA">>,
    <<"JARDIM ÍPIS", "JARDIM ÍPIS">>,
    <<"JARDIM IPIS", "JARDIM ÍPIS">>,
    <<"JARDIM PLANALTO", "JARDIM PLANALTO">>,
    <<"JARDIM SABARÁ", "JARDIM SABARÁ">>,
    <<"JARDIM SABARA", "JARDIM SABARÁ">>,
    <<"LAGEADO", "LAGEADO">>,
    <<"MEDIANEIRA", "MEDIANEIRA">>,
    <<"MORRO SANTANA", "MORRO SANTANA">>,
    <<"PASSO DAS PEDRAS", "PASSO DAS PEDRAS">>,
    <<"PEDRA REDONDA", "PEDRA REDONDA">>,
    <<"PONTA GROSSA", "PONTA GROSSA">>,
    <<"PROTÁSIO ALVES", "PROTÁSIO ALVES">>,
    <<"PROTASIO ALVES", "PROTÁSIO ALVES">>,
    <<"SANTA MARIA GORETTI", "SANTA MARIA GORETTI">>,
    <<"SANTA TEREZA", "SANTA TEREZA">>,
    <<"SANTA TERESA", "SANTA TEREZA">>,
    <<"SANTO ANTÔNIO", "SANTO ANTÔNIO">>,
    <<"SANTO ANTONIO", "SANTO ANTÔNIO">>,
    <<"SÃO JOÃO", "SÃO JOÃO">>,
    <<"SAO JOAO", "SÃO JOÃO">>,
    <<"SAO JOSE", "VILA SÃO JOSÉ">>,
    <<"SÃO SEBASTIÃO", "SÃO SEBASTIÃO">>,
    <<"SAO SEBASTIAO", "SÃO SEBASTIÃO">>,
    <<"SERAFINA CORRÊA", "SERAFINA CORRÊA">>,
    <<"SERAFINA CORREA", "SERAFINA CORRÊA">>,
    <<"TRISTEZA", "TRISTEZA">>,
    <<"VILA ASSUNÇÃO", "VILA ASSUNÇÃO">>,
    <<"VILA ASSUNCAO", "VILA ASSUNÇÃO">>,
    <<"VILA CONCEIÇÃO", "VILA CONCEIÇÃO">>,
    <<"VILA CONCEICAO", "VILA CONCEIÇÃO">>,
    <<"VILA JARDIM", "VILA JARDIM">>,
    <<"VILA JOÃO PESSOA", "VILA JOÃO PESSOA">>,
    <<"VILA JOAO PESSOA", "VILA JOÃO PESSOA">>
  >>

MappingKeys == {mapping[i][1] : i \in DOMAIN mapping}

MappingValues == {mapping[i][2] : i \in DOMAIN mapping}

\* dict.get(key, default); of two entries with one key the later one stands
mapping_get(key, default) ==
  IF key \in MappingKeys
    THEN LET i == CHOOSE j \in DOMAIN mapping :
                    /\ mapping[j][1] = key
                    /\ \A k \in DOMAIN mapping : mapping[k][1] = key => k <= j
         IN  mapping[i][2]
    ELSE default

map_bairro_name(bairro_name) ==
  IF ~str_bool(bairro_name) \/ pd_isna(bairro_name)
    THEN Desconhecido
    ELSE LET name == str_upper(str_strip(bairro_name))
         IN  Str(mapping_get(name.txt, name.txt), "upper", FALSE)

(***************************************************************************)
(* Floats as exact fractions <<num, den>>, den > 0                         *)
(***************************************************************************)
Frac(n, d) == <<n, d>>

FromInt(n) == <<n, 1>>

FMul(x, y) == <<x[1] * y[1], x[2] * y[2]>>

\* comparisons by integer part and remainder, which keeps the products small
FCmp(x, y) ==
  LET qx == x[1] \div x[2]
      qy == y[1] \div y[2]
      rx == (x[1] % x[2]) * y[2]
      ry == (y[1] % y[2]) * x[2]
  IN  IF qx # qy THEN qx - qy ELSE rx - ry

FLt(x, y) == FCmp(x, y) < 0

FLeq(x, y) == FCmp(x, y) <= 0

FEq(x, y) == FCmp(x, y) = 0

\* x >= k for an integer k
FGeq(x, k) == x[1] >= k * x[2]

FMin(x, y) == IF FLt(y, x) THEN y ELSE x

FMax(x, y) == IF FLt(x, y) THEN y ELSE x

\* round(x, 2) in hundredths: the nearest hundredth, a tie going to the even one
round2(x) ==
  LET n == 100 * x[1]
      q == n \div x[2]
      r == n % x[2]
  IN  IF 2 * r < x[2] THEN q
      ELSE IF 2 * r > x[2] THEN q + 1
      ELSE IF q % 2 = 0 THEN q ELSE q + 1

(***************************************************************************)
(* DataFrames                                                              *)
(***************************************************************************)
GramsPerKg == 1000

Frame(cols, rws) == [none |-> FALSE, columns |-> cols, rows |-> rws]

\* pd.DataFrame(): no columns, no rows
EmptyFrame == Frame({}, EmptyBag)

\* the argument None in the place of a DataFrame
NoFrame == [none |-> TRUE, columns |-> {}, rows |-> EmptyBag]

\* pd.DataFrame(): what load_security_index_data() returns without a file
NoIndex == [columns |-> {}, rows |-> <<>>]

df_empty(df) == DOMAIN df.rows = {}

df_len(df) == BagCardinality(df.rows)

\* df[mask]: the rows of the set mask, the columns kept
df_filter(df, mask) ==
  Frame(df.columns, [r \in {x \in DOMAIN df.rows : x \in mask} |-> df.rows[r]])

RECURSIVE bag_sum(_, _)
bag_sum(rows, col) ==
  IF DOMAIN rows = {} THEN 0
  ELSE LET r == CHOOSE x \in DOMAIN rows : TRUE
       IN  r[col] * rows[r] + bag_sum([x \in DOMAIN rows \ {r} |-> rows[x]], col)

\* the sum in which equal rows are added once
col_sum_distinct(df, col) ==
  IF col \in df.columns THEN bag_sum([r \in DOMAIN df.rows |-> 1], col) ELSE 0

\* df[col].sum() if col in df.columns else 0
col_sum(df, col) == IF col \in df.columns THEN bag_sum(df.rows, col) ELSE 0

\* the filter without .str.strip() on the column
filter_bairro_nostrip(df, alvo) ==
  df_filter(df, {r \in DOMAIN df.rows :
                   str_eq(str_upper(r.bairro), str_strip(str_upper(alvo)))})

\* df[df['bairro'].str.upper().str.strip() == bairro.upper().strip()]
filter_bairro(df, alvo) ==
  df_filter(df, {r \in DOMAIN df.rows :
                   str_eq(str_strip(str_upper(r.bairro)), str_strip(str_upper(alvo)))})

\* a timestamp pd.to_datetime cannot parse
BadDate == -1

\* pd.to_datetime(df[col]) raises on an unparseable value
to_datetime_raises(df, col) == \E r \in DOMAIN df.rows : r[col] = BadDate

col_max(df, col) ==
  CHOOSE m \in {r[col] : r \in DOMAIN df.rows} :
    \A r \in DOMAIN df.rows : r[col] <= m

(***************************************************************************)
(* calculate_synergistic_security_analysis                                 *)
(***************************************************************************)
Nivel(e, n, c) == [emoji |-> e, nome |-> n, cor |-> c]

\* the chain with an exclusive first bound (score_final > 120)
classify_synergistic_gt(score_final) ==
  IF score_final[1] > 120 * score_final[2] THEN Nivel("black_circle", "Crítico", "#2B0000")
  ELSE IF FGeq(score_final, 80) THEN Nivel("red_circle", "Muito Alto", "#8B0000")
  ELSE IF FGeq(score_final, 50) THEN Nivel("orange_circle", "Alto", "#FF0000")
  ELSE IF FGeq(score_final, 30) THEN Nivel("yellow_circle", "Médio-Alto", "#FF4500")
  ELSE IF FGeq(score_final, 15) THEN Nivel("yellow_circle", "Médio", "#FFA500")
  ELSE IF FGeq(score_final, 8) THEN Nivel("green_circle", "Baixo-Médio", "#FFD700")
  ELSE IF FGeq(score_final, 3) THEN Nivel("green_circle", "Baixo", "#FFFF00")
  ELSE Nivel("green_circle", "Muito Baixo", "#90EE90")

\* the chain with the last bound 0 in the place of 3
classify_synergistic_ge0(score_final) ==
  IF FGeq(score_final, 120) THEN Nivel("black_circle", "Crítico", "#2B0000")
  ELSE IF FGeq(score_final, 80) THEN Nivel("red_circle", "Muito Alto", "#8B0000")
  ELSE IF FGeq(score_final, 50) THEN Nivel("orange_circle", "Alto", "#FF0000")
  ELSE IF FGeq(score_final, 30) THEN Nivel("yellow_circle", "Médio-Alto", "#FF4500")
  ELSE IF FGeq(score_final, 15) THEN Nivel("yellow_circle", "Médio", "#FFA500")
  ELSE IF FGeq(score_final, 8) THEN Nivel("green_circle", "Baixo-Médio", "#FFD700")
  ELSE IF FGeq(score_final, 0) THEN Nivel("green_circle", "Baixo", "#FFFF00")
  ELSE Nivel("green_circle", "Muito Baixo", "#90EE90")

\* the if/elif chain on score_final
classify_synergistic(score_final) ==
  IF FGeq(score_final, 120) THEN Nivel("black_circle", "Crítico", "#2B0000")
  ELSE IF FGeq(score_final, 80) THEN Nivel("red_circle", "Muito Alto", "#8B0000")
  ELSE IF FGeq(score_final, 50) THEN Nivel("orange_circle", "Alto", "#FF0000")
  ELSE IF FGeq(score_final, 30) THEN Nivel("yellow_circle", "Médio-Alto", "#FF4500")
  ELSE IF FGeq(score_final, 15) THEN Nivel("yellow_circle", "Médio", "#FFA500")
  ELSE IF FGeq(score_final, 8) THEN Nivel("green_circle", "Baixo-Médio", "#FFD700")
  ELSE IF FGeq(score_final, 3) THEN Nivel("green_circle", "Baixo", "#FFFF00")
  ELSE Nivel("green_circle", "Muito Baixo", "#90EE90")

\* score_bruto with the penalty of the deaths subtracted
score_bruto_of_minus(total_crimes, mortes_confronto, prisoes_realizadas, apreensoes_armas, apreensoes_drogas, operacoes_ativas) ==
  LET score_base == total_crimes
      penalidades == IF mortes_confronto > 0 THEN mortes_confronto * 75 ELSE 0
      b1 == IF prisoes_realizadas > 0 THEN prisoes_realizadas * 3 ELSE 0
      b2 == IF apreensoes_armas > 0 THEN apreensoes_armas * 8 ELSE 0
      b3 == IF apreensoes_drogas > 0 THEN apreensoes_drogas * 5 ELSE 0
      b4 == IF operacoes_ativas > 0 THEN operacoes_ativas * 2 ELSE 0
  IN  Frac(GramsPerKg * (score_base - penalidades - b1 - b2 - b4) - b3, GramsPerKg)

\* score_bruto with the weapons credit added to the score
score_bruto_of_plus(total_crimes, mortes_confronto, prisoes_realizadas, apreensoes_armas, apreensoes_drogas, operacoes_ativas) ==
  LET score_base == total_crimes
      penalidades == IF mortes_confronto > 0 THEN mortes_confronto * 75 ELSE 0
      b1 == IF prisoes_realizadas > 0 THEN prisoes_realizadas * 3 ELSE 0
      b2 == IF apreensoes_armas > 0 THEN apreensoes_armas * 8 ELSE 0
      b3 == IF apreensoes_drogas > 0 THEN apreensoes_drogas * 5 ELSE 0
      b4 == IF operacoes_ativas > 0 THEN operacoes_ativas * 2 ELSE 0
  IN  Frac(GramsPerKg * (score_base + penalidades - b1 + b2 - b4) - b3, GramsPerKg)

\* score_bruto = score_base + penalidades - beneficios, in thousandths
score_bruto_of(total_crimes, mortes_confronto, prisoes_realizadas, apreensoes_armas, apreensoes_drogas, operacoes_ativas) ==
  LET score_base == total_crimes
      penalidades == IF mortes_confronto > 0 THEN mortes_confronto * 75 ELSE 0
      b1 == IF prisoes_realizadas > 0 THEN prisoes_realizadas * 3 ELSE 0
      b2 == IF apreensoes_armas > 0 THEN apreensoes_armas * 8 ELSE 0
      \* apreensoes_drogas is in grams: 5 per kilogram
      b3 == IF apreensoes_drogas > 0 THEN apreensoes_drogas * 5 ELSE 0
      b4 == IF operacoes_ativas > 0 THEN operacoes_ativas * 2 ELSE 0
  IN  Frac(GramsPerKg * (score_base + penalidades - b1 - b2 - b4) - b3, GramsPerKg)

\* the factor without the cap of 50%
fator_operacoes_of_nocap(total_operacoes, total_crimes) ==
  IF total_operacoes > 0 /\ total_crimes > 0
    THEN Frac(total_crimes - total_operacoes, total_crimes)
    ELSE FromInt(1)

fator_operacoes_of(total_operacoes, total_crimes) ==
  IF total_operacoes > 0 /\ total_crimes > 0
    THEN LET efetividade == FMin(Frac(1, 2), Frac(total_operacoes, total_crimes))
         IN  Frac(efetividade[2] - efetividade[1], efetividade[2])
    ELSE FromInt(1)

\* the adjusted score without max(0, ...)
score_ajustado_of_noclamp(score_bruto, fator_operacoes) ==
  FMul(score_bruto, fator_operacoes)

score_ajustado_of(score_bruto, fator_operacoes) ==
  FMax(FromInt(0), FMul(score_bruto, fator_operacoes))

\* the effectiveness with the weights of the arrests and of the seizures exchanged
efetividade_global_of_swapped(total_crimes, prisoes_realizadas, apreensoes_armas, apreensoes_drogas, operacoes_ativas) ==
  IF total_crimes > 0
    THEN Frac(30 * GramsPerKg * prisoes_realizadas
                + 40 * (GramsPerKg * apreensoes_armas + apreensoes_drogas)
                + 30 * GramsPerKg * operacoes_ativas,
              GramsPerKg * total_crimes)
    ELSE FromInt(0)

\* efetividade_global = (taxa_prisao * 0.4 + taxa_apreensao * 0.3 + taxa_operacao * 0.3) * 100,
\* the drugs in grams
efetividade_global_of(total_crimes, prisoes_realizadas, apreensoes_armas, apreensoes_drogas, operacoes_ativas) ==
  IF total_crimes > 0
    THEN Frac(40 * GramsPerKg * prisoes_realizadas
                + 30 * (GramsPerKg * apreensoes_armas + apreensoes_drogas)
                + 30 * GramsPerKg * operacoes_ativas,
              GramsPerKg * total_crimes)
    ELSE FromInt(0)

\* the types of the three largest counts of value_counts().head(3)
tipos_predominantes_of(crimes_bairro) ==
  IF "tipo_crime" \notin crimes_bairro.columns THEN {}
  ELSE LET count(t) == df_len(df_filter(crimes_bairro, {r \in DOMAIN crimes_bairro.rows : r.tipo_crime = t}))
           tipos == {r.tipo_crime : r \in {x \in DOMAIN crimes_bairro.rows : ~pd_isna(x.tipo_crime)}}
       IN  {t \in tipos : Cardinality({u \in tipos : count(u) > count(t)}) < 3}

\* 'roubo' in str(tipos_predominantes).lower()
contem_roubo(tipo) == tipo.txt \in {"ROUBO", "ROUBO_PEDESTRES", "ROUBO_VEICULOS"}

\* the recommendations with the rule of the operations firing from 5 crimes on
recomendacoes_of_ge5(nivel_risco, total_crimes, total_operacoes, mortes_confronto, prisoes_realizadas, apreensoes_armas, apreensoes_drogas, efetividade_global, tipos_predominantes) ==
  LET por_nivel ==
        IF nivel_risco.emoji \in {"black_circle", "red_circle"}
          THEN <<"URGENT: Aumentar patrulhamento imediatamente",
                 "Implementar operações preventivas intensivas",
                 "Reforçar segurança pública e iluminação">>
               \o (IF mortes_confronto > 0
                     THEN <<"Revisar protocolos de uso da força">> ELSE <<>>)
        ELSE IF nivel_risco.emoji = "orange_circle"
          THEN <<"Intensificar patrulhamento preventivo",
                 "Implementar operações especiais focadas",
                 "Monitorar pontos críticos identificados">>
        ELSE IF nivel_risco.emoji = "yellow_circle"
          THEN <<"Manter vigilância regular",
                 "Implementar ações comunitárias de segurança",
                 "Focar em prevenção situacional">>
        ELSE <<"Manter ações preventivas atuais">>
      r1 == IF total_operacoes = 0 /\ total_crimes >= 5
              THEN <<"Implementar operações policiais no bairro">> ELSE <<>>
      r2 == IF prisoes_realizadas = 0 /\ total_crimes > 10
              THEN <<"Focar em operações com prisões efetivas">> ELSE <<>>
      r3 == IF apreensoes_armas = 0 /\ (\E t \in tipos_predominantes : contem_roubo(t))
              THEN <<"Intensificar busca e apreensão de armas">> ELSE <<>>
      r4 == IF apreensoes_drogas = 0 /\ total_crimes > 15
              THEN <<"Investigar possível atividade de tráfico">> ELSE <<>>
      r5 == IF FLt(efetividade_global, FromInt(10)) /\ total_crimes > 20
              THEN <<"Melhorar efetividade das operações atuais">> ELSE <<>>
  IN  por_nivel \o r1 \o r2 \o r3 \o r4 \o r5

\* the list recomendacoes: the items of the level, then one item per indicator rule
recomendacoes_of(nivel_risco, total_crimes, total_operacoes, mortes_confronto, prisoes_realizadas, apreensoes_armas, apreensoes_drogas, efetividade_global, tipos_predominantes) ==
  LET por_nivel ==
        IF nivel_risco.emoji \in {"black_circle", "red_circle"}
          THEN <<"URGENT: Aumentar patrulhamento imediatamente",
                 "Implementar operações preventivas intensivas",
                 "Reforçar segurança pública e iluminação">>
               \o (IF mortes_confronto > 0
                     THEN <<"Revisar protocolos de uso da força">> ELSE <<>>)
        ELSE IF nivel_risco.emoji = "orange_circle"
          THEN <<"Intensificar patrulhamento preventivo",
                 "Implementar operações especiais focadas",
                 "Monitorar pontos críticos identificados">>
        ELSE IF nivel_risco.emoji = "yellow_circle"
          THEN <<"Manter vigilância regular",
                 "Implementar ações comunitárias de segurança",
                 "Focar em prevenção situacional">>
        ELSE <<"Manter ações preventivas atuais">>
      r1 == IF total_operacoes = 0 /\ total_crimes > 5
              THEN <<"Implementar operações policiais no bairro">> ELSE <<>>
      r2 == IF prisoes_realizadas = 0 /\ total_crimes > 10
              THEN <<"Focar em operações com prisões efetivas">> ELSE <<>>
      r3 == IF apreensoes_armas = 0 /\ (\E t \in tipos_predominantes : contem_roubo(t))
              THEN <<"Intensificar busca e apreensão de armas">> ELSE <<>>
      r4 == IF apreensoes_drogas = 0 /\ total_crimes > 15
              THEN <<"Investigar possível atividade de tráfico">> ELSE <<>>
      r5 == IF FLt(efetividade_global, FromInt(10)) /\ total_crimes > 20
              THEN <<"Melhorar efetividade das operações atuais">> ELSE <<>>
  IN  por_nivel \o r1 \o r2 \o r3 \o r4 \o r5

\* the result of a call that raised an exception
Raised == [raised |-> TRUE]

calculate_synergistic_security_analysis(crimes, operacoes, alvo) ==
  LET use_crimes == ~df_empty(crimes)
      use_operacoes == ~operacoes.none /\ ~df_empty(operacoes)
      crimes_bairro == IF use_crimes THEN filter_bairro(crimes, alvo) ELSE EmptyFrame
      operacoes_bairro == IF use_operacoes THEN filter_bairro(operacoes, alvo) ELSE EmptyFrame
      total_crimes == df_len(crimes_bairro)
      tem == ~df_empty(crimes_bairro)
      total_operacoes == IF tem THEN col_sum(crimes_bairro, "policiais_envolvidos") ELSE 0
      mortes_confronto == IF tem THEN col_sum(crimes_bairro, "mortes_intervencao_policial") ELSE 0
      prisoes_realizadas == IF tem THEN col_sum(crimes_bairro, "prisoes_realizadas") ELSE 0
      apreensoes_armas == IF tem THEN col_sum(crimes_bairro, "apreensoes_armas") ELSE 0
      apreensoes_drogas == IF tem THEN col_sum(crimes_bairro, "apreensoes_drogas_kg") ELSE 0
      operacoes_ativas ==
        IF tem /\ "tipo_operacao" \in crimes_bairro.columns
          THEN df_len(df_filter(crimes_bairro, {r \in DOMAIN crimes_bairro.rows : r.tipo_operacao # "Nenhuma"}))
          ELSE 0
      datas_crimes == tem /\ "Data_Registro" \in crimes_bairro.columns
      datas_operacoes == ~df_empty(operacoes_bairro) /\ "data_operacao" \in operacoes_bairro.columns
      crimes_ultimo_mes ==
        IF datas_crimes
          THEN LET data_limite == col_max(crimes_bairro, "Data_Registro") - 30
               IN  df_len(df_filter(crimes_bairro, {r \in DOMAIN crimes_bairro.rows : r.Data_Registro >= data_limite}))
          ELSE 0
      operacoes_ultimo_mes ==
        IF datas_operacoes
          THEN LET data_limite == col_max(operacoes_bairro, "data_operacao") - 30
               IN  df_len(df_filter(operacoes_bairro, {r \in DOMAIN operacoes_bairro.rows : r.data_operacao >= data_limite}))
          ELSE 0
      efetividade_operacoes ==
        IF total_operacoes > 0 /\ total_crimes > 0
          THEN LET ratio_operacao_crime == Frac(total_operacoes, total_crimes)
               IN  IF FLeq(Frac(3, 10), ratio_operacao_crime) THEN "Alta"
                   ELSE IF FLeq(Frac(15, 100), ratio_operacao_crime) THEN "Média"
                   ELSE "Baixa"
          ELSE "Não avaliável"
      tipos_predominantes == IF tem THEN tipos_predominantes_of(crimes_bairro) ELSE {}
      score_bruto == score_bruto_of(total_crimes, mortes_confronto, prisoes_realizadas,
                                    apreensoes_armas, apreensoes_drogas, operacoes_ativas)
      fator_operacoes == fator_operacoes_of(total_operacoes, total_crimes)
      score_final == score_ajustado_of(score_bruto, fator_operacoes)
      efetividade_global == efetividade_global_of(total_crimes, prisoes_realizadas,
                              apreensoes_armas, apreensoes_drogas, operacoes_ativas)
      nivel_risco == classify_synergistic(score_final)
  IN  IF (use_crimes \/ use_operacoes) /\ pd_isna(alvo) THEN Raised
      ELSE IF datas_crimes /\ to_datetime_raises(crimes_bairro, "Data_Registro") THEN Raised
      ELSE IF datas_operacoes /\ to_datetime_raises(operacoes_bairro, "data_operacao") THEN Raised
      ELSE [raised |-> FALSE,
            bairro |-> alvo,
            total_crimes |-> total_crimes,
            total_operacoes |-> total_operacoes,
            mortes_confronto |-> mortes_confronto,
            prisoes_realizadas |-> prisoes_realizadas,
            apreensoes_armas |-> apreensoes_armas,
            apreensoes_drogas |-> round2(Frac(apreensoes_drogas, GramsPerKg)),
            operacoes_ativas |-> operacoes_ativas,
            efetividade_global |-> round2(efetividade_global),
            score_sinergico |-> round2(score_final),
            score_bruto |-> round2(score_bruto),
            \* the values of the local variables before they are rounded
            locals |-> [score_bruto |-> score_bruto,
                        fator_operacoes |-> fator_operacoes,
                        score_final |-> score_final,
                        apreensoes_drogas |-> apreensoes_drogas,
                        efetividade_global |-> efetividade_global],
            nivel_risco |-> nivel_risco.nome,
            emoji |-> nivel_risco.emoji,
            cor |-> nivel_risco.cor,
            analise_temporal |->
              [crimes_ultimo_mes |-> crimes_ultimo_mes,
               operacoes_ultimo_mes |-> operacoes_ultimo_mes,
               tendencia_crimes |-> "Estável",
               efetividade_operacoes |-> efetividade_operacoes],
            recomendacoes |-> recomendacoes_of(nivel_risco, total_crimes, total_operacoes,
                                mortes_confronto, prisoes_realizadas, apreensoes_armas,
                                apreensoes_drogas, efetividade_global, tipos_predominantes)]

(***************************************************************************)
(* calculate_risk_score                                                    *)
(***************************************************************************)
\* pesos_crimes, in tenths
pesos_crimes ==
  <<<<"ROUBO", 30>>, <<"FURTO", 20>>, <<"LESÃO CORPORAL", 25>>, <<"HOMICÍDIO", 50>>,
    <<"TRÁFICO DE DROGAS", 35>>, <<"AMEAÇA", 15>>, <<"VIOLÊNCIA DOMÉSTICA", 28>>>>

\* pesos_crimes.get(tipo_crime.upper(), 1.0), in tenths
peso_of(tipo_crime) ==
  LET t == str_upper(tipo_crime)
  IN  IF ~t.pad /\ \E i \in DOMAIN pesos_crimes : pesos_crimes[i][1] = t.txt
        THEN pesos_crimes[CHOOSE i \in DOMAIN pesos_crimes : pesos_crimes[i][1] = t.txt][2]
        ELSE 10

\* the loop over crimes_por_tipo.items(), in tenths: value_counts() leaves
\* out the records whose tipo_crime is missing
RECURSIVE soma_ponderada(_)
soma_ponderada(rows) ==
  IF DOMAIN rows = {} THEN 0
  ELSE LET r == CHOOSE x \in DOMAIN rows : TRUE
       IN  (IF pd_isna(r.tipo_crime) THEN 0 ELSE rows[r] * peso_of(r.tipo_crime))
             + soma_ponderada([x \in DOMAIN rows \ {r} |-> rows[x]])

classify_risk_score(score_risco) ==
  IF FGeq(score_risco, 80) THEN "Crítico"
  ELSE IF FGeq(score_risco, 60) THEN "Alto"
  ELSE IF FGeq(score_risco, 40) THEN "Médio"
  ELSE IF FGeq(score_risco, 20) THEN "Baixo"
  ELSE "Muito Baixo"

\* the trend with inclusive thresholds (variacao >= 0.2, variacao <= -0.2)
tendencia_of_inclusive(crimes_ultimos_30, crimes_30_anteriores) ==
  IF crimes_30_anteriores > 0
    THEN LET variacao == Frac(crimes_ultimos_30 - crimes_30_anteriores, crimes_30_anteriores)
         IN  IF FLeq(Frac(2, 10), variacao) THEN "Crescente"
             ELSE IF FLeq(variacao, Frac(-2, 10)) THEN "Decrescente"
             ELSE "Estável"
    ELSE "Estável"

\* the trend of the comparison of the last 30 days with the 30 days before
tendencia_of(crimes_ultimos_30, crimes_30_anteriores) ==
  IF crimes_30_anteriores > 0
    THEN LET variacao == Frac(crimes_ultimos_30 - crimes_30_anteriores, crimes_30_anteriores)
         IN  IF FLt(Frac(2, 10), variacao) THEN "Crescente"
             ELSE IF FLt(variacao, Frac(-2, 10)) THEN "Decrescente"
             ELSE "Estável"
    ELSE "Estável"

\* the guard with len(df_bairro) >= 10
calcula_tendencia_ge10(df_bairro) ==
  "Data_Registro" \in df_bairro.columns /\ df_len(df_bairro) >= 10

\* the guard of the trend computation
calcula_tendencia(df_bairro) ==
  "Data_Registro" \in df_bairro.columns /\ df_len(df_bairro) > 10

\* len(df[df['Data Registro'] >= data_mais_recente - Timedelta(days=30)])
crimes_ultimos_30_of(df_bairro, data_mais_recente) ==
  df_len(df_filter(df_bairro, {r \in DOMAIN df_bairro.rows : r.Data_Registro >= data_mais_recente - 30}))

\* the window of the 30 days before with an inclusive upper end
crimes_30_anteriores_of_inclusive(df_bairro, data_mais_recente) ==
  df_len(df_filter(df_bairro, {r \in DOMAIN df_bairro.rows :
                                 /\ r.Data_Registro >= data_mais_recente - 60
                                 /\ r.Data_Registro <= data_mais_recente - 30}))

\* len(df[(df['Data Registro'] >= data_mais_recente - Timedelta(days=60))
\*        & (df['Data Registro'] < data_mais_recente - Timedelta(days=30))])
crimes_30_anteriores_of(df_bairro, data_mais_recente) ==
  df_len(df_filter(df_bairro, {r \in DOMAIN df_bairro.rows :
                                 /\ r.Data_Registro >= data_mais_recente - 60
                                 /\ r.Data_Registro < data_mais_recente - 30}))

RiskZero(alvo) ==
  [raised |-> FALSE, bairro |-> alvo, total_crimes |-> 0, score_risco |-> 0,
   nivel_risco |-> "Baixo", crimes_por_tipo |-> <<>>, tendencia |-> "Estável"]

calculate_risk_score(df, alvo) ==
  IF df_empty(df) THEN RiskZero(alvo)
  ELSE IF pd_isna(alvo) THEN Raised
  ELSE
    LET df_bairro == filter_bairro(df, alvo)
        total_crimes == df_len(df_bairro)
        \* value_counts(): the types that are not missing
        tipos == {r.tipo_crime : r \in {x \in DOMAIN df_bairro.rows : ~pd_isna(x.tipo_crime)}}
        crimes_por_tipo ==
          [t \in tipos |-> df_len(df_filter(df_bairro, {r \in DOMAIN df_bairro.rows : r.tipo_crime = t}))]
        tem_data == "Data_Registro" \in df_bairro.columns
        data_mais_recente == col_max(df_bairro, "Data_Registro")
        crimes_recentes == crimes_ultimos_30_of(df_bairro, data_mais_recente)
        \* in tenths: the weights plus 1.5 per recent crime
        score_ponderado ==
          soma_ponderada(df_bairro.rows) + (IF tem_data THEN crimes_recentes * 15 ELSE 0)
        maximo == IF total_crimes > 1 THEN total_crimes ELSE 1
        score_risco == FMin(FromInt(100), Frac(score_ponderado * 20, 10 * maximo))
        crimes_ultimos_30 == crimes_ultimos_30_of(df_bairro, data_mais_recente)
        crimes_30_anteriores == crimes_30_anteriores_of(df_bairro, data_mais_recente)
        tendencia ==
          IF calcula_tendencia(df_bairro)
            THEN tendencia_of(crimes_ultimos_30, crimes_30_anteriores)
            ELSE "Estável"
    IN  IF df_empty(df_bairro) THEN RiskZero(alvo)
        ELSE IF tem_data /\ to_datetime_raises(df_bairro, "Data_Registro") THEN Raised
        ELSE [raised |-> FALSE,
              bairro |-> alvo,
              total_crimes |-> total_crimes,
              score_risco |-> round2(score_risco),
              nivel_risco |-> classify_risk_score(score_risco),
              crimes_por_tipo |-> crimes_por_tipo,
              tendencia |-> tendencia,
              \* the values of the local variables
              locals |-> [score_risco |-> score_risco,
                          calcula_tendencia |-> calcula_tendencia(df_bairro),
                          crimes_ultimos_30 |-> IF tem_data THEN crimes_ultimos_30 ELSE 0,
                          crimes_30_anteriores |-> IF tem_data THEN crimes_30_anteriores ELSE 0]]

(***************************************************************************)
(* Inputs                                                                  *)
(***************************************************************************)
MaxCrimes == 16
MaxDeaths == 2
MaxArrests == 1
MaxWeapons == 2
MaxDrugKg == 4
MaxTrace == 2
MaxActive == 1
MaxOfficers == 3

CrimeColumns ==
  {"bairro", "tipo_crime", "Data_Registro", "policiais_envolvidos",
   "mortes_intervencao_policial", "prisoes_realizadas", "apreensoes_armas",
   "apreensoes_drogas_kg", "tipo_operacao"}

\* one row of the integrated crime table; drugs in grams, the date a day
\* number; ordem is the position of the row in the table, and the rows built
\* here without a position share the position 0
Crime(b, t, dia, pol, mor, pri, arm, dro, op) ==
  [bairro |-> b, tipo_crime |-> t, Data_Registro |-> dia,
   policiais_envolvidos |-> pol, mortes_intervencao_policial |-> mor,
   prisoes_realizadas |-> pri, apreensoes_armas |-> arm,
   apreensoes_drogas_kg |-> dro, tipo_operacao |-> op, ordem |-> 0]

Operacao(b, dia) == [bairro |-> b, data_operacao |-> dia]

\* n copies of the row r
Copies(r, n) == IF n > 0 THEN [x \in {r} |-> n] ELSE EmptyBag

CentroHistorico == Str("CENTRO HISTÓRICO", "title", FALSE)

Furto == Str("FURTO_CELULARES", "lower", FALSE)

Hoje == 100

\* a table whose rows of Centro Histórico add up to the given indicators:
\* one row carries the sums, the others are plain records, and a row of
\* another neighbourhood is always present
ScoreTable(c, d, a, w, g, o, p) ==
  LET rich == Crime(CentroHistorico, Furto, Hoje, p, d, a, w, g,
                    IF o > 0 THEN "Combate" ELSE "Nenhuma")
      ativa == Crime(Str("CENTRO HISTÓRICO", "upper", TRUE), Furto, Hoje,
                     0, 0, 0, 0, 0, "Patrulha")
      plain == Crime(Str("CENTRO HISTÓRICO", "lower", FALSE), Furto, Hoje,
                     0, 0, 0, 0, 0, "Nenhuma")
      outro == Crime(Str("RESTINGA", "title", FALSE), Furto, Hoje,
                     3, 1, 2, 1, 1500, "Combate")
      n_ativa == IF o > 1 THEN o - 1 ELSE 0
  IN  Frame(CrimeColumns,
            Copies(rich, IF c > 0 THEN 1 ELSE 0) (+) Copies(ativa, n_ativa)
              (+) Copies(plain, c - 1 - n_ativa) (+) Copies(outro, 1))

NoResult == [raised |-> FALSE]

\* the GeoJSON object as load_geojson_data returns it: the features of three
\* neighbourhoods, each with its name under the key NOME
GeoLoaded ==
  [none |-> FALSE,
   features |-> <<[NOME |-> Str("CENTRO HISTÓRICO", "title", FALSE)],
                  [NOME |-> Str("RESTINGA", "title", FALSE)],
                  [NOME |-> Str("FLORESTA", "title", FALSE)]>>]

Init ==
  /\ \E c \in 0..MaxCrimes, d \in 0..MaxDeaths, a \in 0..MaxArrests,
        w \in 0..MaxWeapons, kg \in 0..MaxDrugKg, t \in 0..MaxTrace,
        o \in 0..MaxActive, p \in 0..MaxOfficers :
       /\ o <= c
       /\ c = 0 => d = 0 /\ a = 0 /\ w = 0 /\ kg = 0 /\ t = 0 /\ p = 0
       /\ df_crimes = ScoreTable(c, d, a, w, GramsPerKg * kg + 2 * t, o, p)
  /\ df_operacoes = NoFrame
  /\ bairro = CentroHistorico
  /\ bairros_selecionados = {}
  /\ geojson_data = GeoLoaded
  /\ df_seguranca = NoIndex
  /\ pc = "start"
  /\ result = NoResult

\* a call of calculate_synergistic_security_analysis(df_crimes, df_operacoes, bairro)
Analyse ==
  /\ pc = "start"
  /\ result' = calculate_synergistic_security_analysis(df_crimes, df_operacoes, bairro)
  /\ pc' = "synergistic"
  /\ UNCHANGED <<df_crimes, df_operacoes, bairro, bairros_selecionados, geojson_data, df_seguranca>>

(***************************************************************************)
(* get_color_based_on_synergistic_analysis (src/modules/mapping_utils.py)  *)
(***************************************************************************)
\* the string under the key 'nivel_risco' of an assessment, as the pair of
\* its leading emoji and its name; the default 'Baixo' when the key is absent
nivel_risco_get(analysis_data) ==
  IF "nivel_risco" \in DOMAIN analysis_data
    THEN <<analysis_data.emoji, analysis_data.nivel_risco>>
    ELSE <<"", "Baixo">>

\* color_map: the keys are names without an emoji
color_map ==
  <<<< <<"", "Crítico">>, "#8B0000" >>,
    << <<"", "Muito Alto">>, "#FF0000" >>,
    << <<"", "Alto">>, "#FF4500" >>,
    << <<"", "Médio-Alto">>, "#FFA500" >>,
    << <<"", "Médio">>, "#FFD700" >>,
    << <<"", "Baixo-Médio">>, "#FFFF00" >>,
    << <<"", "Baixo">>, "#90EE90" >>,
    << <<"", "Muito Baixo">>, "#00FF00" >>>>

get_color_based_on_synergistic_analysis(analysis_data) ==
  IF DOMAIN analysis_data = {} THEN "#90EE90"
  ELSE LET nivel_risco == nivel_risco_get(analysis_data)
       IN  IF \E i \in DOMAIN color_map : color_map[i][1] = nivel_risco
             THEN color_map[CHOOSE i \in DOMAIN color_map : color_map[i][1] = nivel_risco][2]
             ELSE "#90EE90"

\* get_color_based_on_synergistic_analysis applied to the assessment returned
ColourCall ==
  /\ pc = "synergistic"
  /\ ~result.raised
  /\ result' = [raised |-> FALSE,
                analysis_data |-> result,
                color |-> get_color_based_on_synergistic_analysis(result)]
  /\ pc' = "coloured"
  /\ UNCHANGED <<df_crimes, df_operacoes, bairro, bairros_selecionados, geojson_data, df_seguranca>>

Next == Analyse \/ ColourCall

Spec == Init /\ [][Next]_vars

(***************************************************************************)
(* A smaller family of tables, for the properties that analyse a table     *)
(* again after one indicator of one record has grown                       *)
(***************************************************************************)
MonoCrimes == 6
MonoDeaths == 1
MonoArrests == 2
MonoWeapons == 1
MonoDrugs == 2
MonoOfficers == 3

InitMono ==
  /\ \E c \in 0..MonoCrimes, d \in 0..MonoDeaths, a \in 0..MonoArrests,
        w \in 0..MonoWeapons, hk \in 0..MonoDrugs, o \in 0..1,
        p \in 0..MonoOfficers :
       /\ o <= c
       /\ c = 0 => d = 0 /\ a = 0 /\ w = 0 /\ hk = 0 /\ p = 0
       \* the drugs in half kilograms
       /\ df_crimes = ScoreTable(c, d, a, w, (GramsPerKg \div 2) * hk, o, p)
  /\ df_operacoes = NoFrame
  /\ bairro = CentroHistorico
  /\ bairros_selecionados = {}
  /\ geojson_data = GeoLoaded
  /\ df_seguranca = NoIndex
  /\ pc = "start"
  /\ result = NoResult

SpecMono == InitMono /\ [][Next]_vars

(***************************************************************************)
(* Properties of calculate_synergistic_security_analysis                   *)
(***************************************************************************)
Analysed == pc = "synergistic" /\ ~result.raised

\* the score as the specification writes it: clamp, then multiply
score_spec(c, d, a, w, g, o, p) ==
  LET raw == GramsPerKg * (c + 75 * d - 3 * a - 8 * w - 2 * o) - 5 * g
      clamped == IF raw < 0 THEN 0 ELSE raw
  IN  IF p > 0 /\ c > 0
        THEN IF 2 * p >= c THEN Frac(clamped, 2 * GramsPerKg)
             ELSE Frac(clamped * (c - p), GramsPerKg * c)
        ELSE Frac(clamped, GramsPerKg)

score_spec_of(res) ==
  score_spec(res.total_crimes, res.mortes_confronto, res.prisoes_realizadas,
             res.apreensoes_armas, res.locals.apreensoes_drogas,
             res.operacoes_ativas, res.total_operacoes)

\* C1: the score is max(0, c + 75d - 3a - 8w - 5g - 2o), multiplied by
\* 1 - min(0.5, p/c) only when p > 0 and c > 0: the code, which clamps after
\* the multiplication, computes the value of the formula that clamps before
\* it, and returns it rounded to two decimals
C1_ScoreFormula ==
  Analysed =>
    /\ FEq(result.locals.score_final, score_spec_of(result))
    /\ result.score_sinergico = round2(score_spec_of(result))

\* a negative raw score under an operations factor strictly between 0.5 and 1
C1_Witness ==
  /\ Analysed
  /\ result.locals.score_bruto[1] < 0
  /\ result.total_operacoes > 0
  /\ 2 * result.total_operacoes < result.total_crimes
  /\ result.score_sinergico = 0

\* C2: the level is the first bucket of the score from the highest threshold
\* down, the lower bounds inclusive
C2_LevelBuckets ==
  Analysed =>
    LET s == result.locals.score_final
        in(lo, hi) == lo * s[2] <= s[1] /\ s[1] < hi * s[2]
    IN  /\ 120 * s[2] <= s[1] => result.nivel_risco = "Crítico"
        /\ in(80, 120) => result.nivel_risco = "Muito Alto"
        /\ in(50, 80) => result.nivel_risco = "Alto"
        /\ in(30, 50) => result.nivel_risco = "Médio-Alto"
        /\ in(15, 30) => result.nivel_risco = "Médio"
        /\ in(8, 15) => result.nivel_risco = "Baixo-Médio"
        /\ in(3, 8) => result.nivel_risco = "Baixo"
        /\ s[1] < 3 * s[2] => result.nivel_risco = "Muito Baixo"

\* a score of exactly 120 classified Crítico
C2_Witness ==
  /\ Analysed
  /\ FEq(result.locals.score_final, FromInt(120))
  /\ result.nivel_risco = "Crítico"

\* C3: the score is never negative
C3_ScoreNonNegative ==
  Analysed => result.locals.score_final[1] >= 0 /\ result.score_sinergico >= 0

\* the credits exceed the crimes with no operations factor, and the score is 0
C3_Witness ==
  /\ Analysed
  /\ result.locals.score_bruto[1] < 0
  /\ result.total_operacoes = 0
  /\ result.apreensoes_armas > 0
  /\ result.score_sinergico = 0

\* the table with n more in the column col of one record r
with_more(df, r, col, n) ==
  Frame(df.columns,
        (df.rows (-) Copies(r, 1)) (+) Copies([r EXCEPT ![col] = @ + n], 1))

registos_do_bairro == DOMAIN filter_bairro(df_crimes, bairro).rows

reanalyse(r, col, n) ==
  calculate_synergistic_security_analysis(with_more(df_crimes, r, col, n),
                                          df_operacoes, bairro)

\* C5: one more death, all else fixed, never lowers the score and raises the
\* raw score by exactly 75
C5_DeathsMonotone ==
  Analysed =>
    \A r \in registos_do_bairro :
      LET mais == reanalyse(r, "mortes_intervencao_policial", 1)
      IN  /\ FLeq(result.locals.score_final, mais.locals.score_final)
          /\ result.score_sinergico <= mais.score_sinergico
          /\ FEq(mais.locals.score_bruto,
                 Frac(result.locals.score_bruto[1] + 75 * result.locals.score_bruto[2],
                      result.locals.score_bruto[2]))

\* a score clamped to 0 under an operations factor that one more death makes positive
C5_Witness ==
  /\ Analysed
  /\ result.score_sinergico = 0
  /\ result.total_operacoes > 0
  /\ \E r \in registos_do_bairro :
       reanalyse(r, "mortes_intervencao_policial", 1).score_sinergico > 0

\* C6: more arrests, weapons or drugs, the crimes and all else fixed, never
\* raise the score
C6_CreditsMonotone ==
  Analysed =>
    \A r \in registos_do_bairro :
      \A cn \in {<<"prisoes_realizadas", 1>>, <<"apreensoes_armas", 1>>,
                 <<"apreensoes_drogas_kg", 1>>, <<"apreensoes_drogas_kg", GramsPerKg>>} :
        LET mais == reanalyse(r, cn[1], cn[2])
        IN  /\ FLeq(mais.locals.score_final, result.locals.score_final)
            /\ mais.score_sinergico <= result.score_sinergico

\* a positive score that one more seized weapon brings down to the clamp
C6_Witness ==
  /\ Analysed
  /\ result.score_sinergico > 0
  /\ \E r \in registos_do_bairro :
       reanalyse(r, "apreensoes_armas", 1).score_sinergico = 0

(***************************************************************************)
(* Tables whose records spell the neighbourhood in several ways            *)
(***************************************************************************)
MatchKinds == 2
MatchCopies == 2

Roubo == Str("ROUBO_PEDESTRES", "lower", FALSE)

\* 'Centro Histórico', ' CENTRO HISTÓRICO ', 'centro', 'CENTRO HISTORICO',
\* 'Restinga' and a missing name
Spellings ==
  {CentroHistorico, Str("CENTRO HISTÓRICO", "upper", TRUE),
   Str("CENTRO", "lower", FALSE), Str("CENTRO HISTORICO", "upper", FALSE),
   Str("RESTINGA", "title", FALSE), NaN}

\* the names a caller asks for: the spellings and a neighbourhood of no record
Targets == (Spellings \ {NaN}) \cup {Str("FLORESTA", "title", FALSE)}

MatchRows ==
  {Crime(s, Furto, Hoje, 0, 0, 0, 0, 0, "Nenhuma") : s \in Spellings}
    \cup {Crime(s, Roubo, Hoje - 40, 2, 1, 1, 1, 500, "Combate") :
            s \in {CentroHistorico, Str("RESTINGA", "title", FALSE)}}

OperacoesColumns == {"bairro", "data_operacao"}

MatchOperacoes ==
  {NoFrame, Frame(OperacoesColumns, EmptyBag),
   Frame(OperacoesColumns,
         Copies(Operacao(Str("CENTRO HISTÓRICO", "upper", FALSE), Hoje), 1)
           (+) Copies(Operacao(Str("RESTINGA", "lower", TRUE), Hoje - 31), 2))}

InitMatch ==
  /\ \E S \in SUBSET MatchRows :
       /\ Cardinality(S) <= MatchKinds
       /\ \E f \in [S -> 1..MatchCopies] :
            df_crimes = IF S = {} THEN EmptyFrame ELSE Frame(CrimeColumns, f)
  /\ df_operacoes \in MatchOperacoes
  /\ bairro \in Targets
  /\ bairros_selecionados = {}
  /\ geojson_data = GeoLoaded
  /\ df_seguranca = NoIndex
  /\ pc = "start"
  /\ result = NoResult

\* a call of calculate_risk_score(df_crimes, bairro)
RiskScoreCall ==
  /\ pc = "start"
  /\ result' = calculate_risk_score(df_crimes, bairro)
  /\ pc' = "risk_score"
  /\ UNCHANGED <<df_crimes, df_operacoes, bairro, bairros_selecionados, geojson_data, df_seguranca>>

NextMatch == Analyse \/ RiskScoreCall

SpecMatch == InitMatch /\ [][NextMatch]_vars

\* the number of records of df whose name is alvo up to letter case and
\* surrounding whitespace
RECURSIVE conta(_, _)
conta(rows, nomes) ==
  IF DOMAIN rows = {} THEN 0
  ELSE LET r == CHOOSE x \in DOMAIN rows : TRUE
       IN  (IF r.bairro \in nomes THEN rows[r] ELSE 0)
             + conta([x \in DOMAIN rows \ {r} |-> rows[x]], nomes)

registos_de(df, alvo) ==
  conta(df.rows, {s \in Spellings : s # NaN /\ s.txt = alvo.txt})

\* the number of records of df whose name has the canonical name of alvo
registos_canonicos_de(df, alvo) ==
  conta(df.rows, {s \in Spellings : s # NaN /\ map_bairro_name(s) = map_bairro_name(alvo)})

\* C4: a neighbourhood without records gets the zero state and no error:
\* score 0, Muito Baixo, effectiveness 0, trend Estável and the single
\* recommendation to keep the current preventive actions
C4_ZeroState ==
  (pc = "synergistic" /\ registos_de(df_crimes, bairro) = 0) =>
    /\ ~result.raised
    /\ result.total_crimes = 0
    /\ result.score_sinergico = 0
    /\ result.nivel_risco = "Muito Baixo"
    /\ result.efetividade_global = 0
    /\ result.analise_temporal.tendencia_crimes = "Estável"
    /\ result.recomendacoes = <<"Manter ações preventivas atuais">>

\* records and operations exist, none of the records is of the neighbourhood
C4_Witness ==
  /\ Analysed
  /\ ~df_empty(df_crimes)
  /\ ~df_operacoes.none /\ ~df_empty(df_operacoes)
  /\ result.total_crimes = 0
  /\ result.recomendacoes = <<"Manter ações preventivas atuais">>

\* C7 as stated: the records of every spelling with the canonical name of the
\* target, its aliases included, are counted in total_crimes
C7_AliasCounted ==
  (pc \in {"synergistic", "risk_score"} /\ ~result.raised) =>
    result.total_crimes = registos_canonicos_de(df_crimes, bairro)

\* C7 amended: total_crimes counts the records whose name equals the target
\* after upper-casing and trimming, and no others
C7_UpperTrimMatch ==
  (pc \in {"synergistic", "risk_score"} /\ ~result.raised) =>
    result.total_crimes = registos_de(df_crimes, bairro)

\* a padded upper-case spelling is counted and an alias spelling is not
C7_Witness ==
  /\ pc \in {"synergistic", "risk_score"}
  /\ bairro = CentroHistorico
  /\ \E r \in DOMAIN df_crimes.rows : r.bairro = Str("CENTRO HISTÓRICO", "upper", TRUE)
  /\ \E r \in DOMAIN df_crimes.rows : r.bairro = Str("CENTRO", "lower", FALSE)
  /\ result.total_crimes > 0
  /\ result.total_crimes < df_len(df_crimes)

(***************************************************************************)
(* map_bairro_name applied to a name and then to its own result            *)
(***************************************************************************)
\* every key and value of the table, a name the table does not list, the
\* text of the placeholder and the empty string, in upper, title and lower
\* case, bare and padded with whitespace, and the missing name
MapInputs ==
  {Str(t, c, p) : t \in MappingKeys \cup MappingValues \cup {"VILA ALEGRE", "DESCONHECIDO"},
                  c \in {"upper", "title", "lower"}, p \in BOOLEAN}
    \cup {Str("", "upper", p) : p \in BOOLEAN} \cup {NaN}

InitMap ==
  /\ df_crimes = EmptyFrame
  /\ df_operacoes = NoFrame
  /\ bairro \in MapInputs
  /\ bairros_selecionados = {}
  /\ geojson_data = GeoLoaded
  /\ df_seguranca = NoIndex
  /\ pc = "start"
  /\ result = <<>>

\* map_bairro_name(bairro)
MapName ==
  /\ pc = "start"
  /\ result' = <<map_bairro_name(bairro)>>
  /\ pc' = "mapped"
  /\ UNCHANGED <<df_crimes, df_operacoes, bairro, bairros_selecionados, geojson_data, df_seguranca>>

\* map_bairro_name applied to the name the first call returned
MapAgain ==
  /\ pc = "mapped"
  /\ result' = Append(result, map_bairro_name(result[1]))
  /\ pc' = "remapped"
  /\ UNCHANGED <<df_crimes, df_operacoes, bairro, bairros_selecionados, geojson_data, df_seguranca>>

NextMap == MapName \/ MapAgain

SpecMap == InitMap /\ [][NextMap]_vars

\* C8: mapping a mapped name changes nothing, for listed aliases, canonical
\* names, unlisted names in any case or padding and the empty or missing
\* name, and every canonical name of the table is returned unchanged
C8_Idempotent ==
  /\ pc = "remapped" => result[2] = result[1]
  /\ (pc = "mapped" /\ bairro.txt \in MappingValues /\ bairro.caso = "upper" /\ ~bairro.pad)
       => result[1] = bairro

(***************************************************************************)
(* Tables of dated records of one neighbourhood, for the trend             *)
(***************************************************************************)
TrendLast == 8
TrendPrior == 6
TrendOld == 2

\* a record of Centro Histórico of the given day
Dated(dia) == Crime(CentroHistorico, Furto, dia, 0, 0, 0, 0, 0, "Nenhuma")

\* records of today, of 30, 31, 60 and 61 days ago, and a later record of
\* another neighbourhood; the date column may be absent from the table
InitTrend ==
  /\ \E n0 \in 0..TrendLast, n30 \in 0..1, n31 \in 0..TrendPrior, n60 \in 0..1,
        n61 \in 0..TrendOld, com_data \in BOOLEAN :
       df_crimes =
         Frame(IF com_data THEN CrimeColumns ELSE CrimeColumns \ {"Data_Registro"},
               Copies(Dated(Hoje), n0) (+) Copies(Dated(Hoje - 30), n30)
                 (+) Copies(Dated(Hoje - 31), n31) (+) Copies(Dated(Hoje - 60), n60)
                 (+) Copies(Dated(Hoje - 61), n61)
                 (+) Copies(Crime(Str("RESTINGA", "title", FALSE), Roubo, Hoje + 10,
                                  0, 0, 0, 0, 0, "Nenhuma"), 1))
  /\ df_operacoes = NoFrame
  /\ bairro = CentroHistorico
  /\ bairros_selecionados = {}
  /\ geojson_data = GeoLoaded
  /\ df_seguranca = NoIndex
  /\ pc = "start"
  /\ result = NoResult

NextTrend == RiskScoreCall \/ Analyse

SpecTrend == InitTrend /\ [][NextTrend]_vars

Scored == pc = "risk_score" /\ ~result.raised /\ result.total_crimes > 0

\* the label of the change from anteriores to ultimos, in integers:
\* (u - a) / a > 0.2 is 5 * (u - a) > a
label_by_change(u, a) ==
  IF a > 0 /\ 5 * (u - a) > a THEN "Crescente"
  ELSE IF a > 0 /\ 5 * (u - a) < -a THEN "Decrescente"
  ELSE "Estável"

\* C9: where the trend is computed (more than 10 dated records), the label is
\* Crescente for a change above +20%, Decrescente for one below -20% and
\* Estável otherwise: at exactly +20% or -20%, and for an empty prior window
C9_TrendLabel ==
  (Scored /\ "Data_Registro" \in df_crimes.columns /\ result.total_crimes > 10) =>
    LET u == result.locals.crimes_ultimos_30
        a == result.locals.crimes_30_anteriores
    IN  /\ (a > 0 /\ 5 * (u - a) > a) => result.tendencia = "Crescente"
        /\ (a > 0 /\ 5 * (u - a) < -a) => result.tendencia = "Decrescente"
        /\ (a > 0 /\ 5 * (u - a) = a) => result.tendencia = "Estável"
        /\ (a > 0 /\ 5 * (u - a) = -a) => result.tendencia = "Estável"
        /\ (a > 0 /\ 5 * (u - a) < a /\ 5 * (u - a) > -a) => result.tendencia = "Estável"
        /\ a = 0 => result.tendencia = "Estável"

\* 6 records in the last 30 days after 5 in the 30 days before: exactly +20%
C9_Witness ==
  /\ Scored
  /\ result.total_crimes > 10
  /\ result.locals.crimes_ultimos_30 = 6
  /\ result.locals.crimes_30_anteriores = 5
  /\ result.tendencia = "Estável"

\* C10 as stated: the trend is skipped (Estável) with fewer than 10 records
\* and computed from the two windows with 10 or more
C10_SkipBelowTen ==
  (Scored /\ "Data_Registro" \in df_crimes.columns) =>
    result.tendencia =
      IF result.total_crimes < 10 THEN "Estável"
      ELSE label_by_change(result.locals.crimes_ultimos_30,
                           result.locals.crimes_30_anteriores)

\* C10 amended: the trend is skipped with 10 records or fewer, and without
\* the date column, and computed from the two windows with 11 or more
C10_SkipUpToTen ==
  Scored =>
    result.tendencia =
      IF result.total_crimes <= 10 \/ "Data_Registro" \notin df_crimes.columns
        THEN "Estável"
        ELSE label_by_change(result.locals.crimes_ultimos_30,
                             result.locals.crimes_30_anteriores)

\* exactly 10 records whose windows show a rise, and the label is Estável
C10_Witness ==
  /\ Scored
  /\ "Data_Registro" \in df_crimes.columns
  /\ result.total_crimes = 10
  /\ label_by_change(result.locals.crimes_ultimos_30,
                      result.locals.crimes_30_anteriores) = "Crescente"
  /\ result.tendencia = "Estável"

(***************************************************************************)
(* The two 30-day windows of calculate_risk_score and the trend label of   *)
(* calculate_synergistic_security_analysis                                 *)
(***************************************************************************)
\* the number of records of rows that are in the set S
RECURSIVE conta_em(_, _)
conta_em(rows, S) ==
  IF DOMAIN rows = {} THEN 0
  ELSE LET r == CHOOSE x \in DOMAIN rows : TRUE
       IN  (IF r \in S THEN rows[r] ELSE 0)
             + conta_em([x \in DOMAIN rows \ {r} |-> rows[x]], S)

\* the records of the table that are of the neighbourhood asked for
do_bairro == {r \in DOMAIN df_crimes.rows : ~pd_isna(r.bairro) /\ r.bairro.txt = bairro.txt}

\* the date of the latest record of the neighbourhood
agora == CHOOSE d \in {r.Data_Registro : r \in do_bairro} :
           \A r \in do_bairro : r.Data_Registro <= d

\* the number of records of the neighbourhood dated from day lo to day hi
datados(lo, hi) ==
  conta_em(df_crimes.rows, {r \in do_bairro : lo <= r.Data_Registro /\ r.Data_Registro <= hi})

\* C11: with now the latest date of the neighbourhood, the last window counts
\* exactly the records of [now-30, now] and the prior window exactly those of
\* [now-60, now-30), so that a record of day now-30 is in the last window
\* only, one of day now-60 in the prior window only, an older one in neither,
\* and the two counts and the older records add up to the total
C11_Windows ==
  (Scored /\ result.locals.calcula_tendencia) =>
    /\ result.locals.crimes_ultimos_30 = datados(agora - 30, agora)
    /\ result.locals.crimes_30_anteriores = datados(agora - 60, agora - 31)
    /\ result.locals.crimes_ultimos_30 + result.locals.crimes_30_anteriores
         + datados(agora - 1000, agora - 61) = result.total_crimes

\* records of exactly 30, exactly 60 and 61 days before the latest one
C11_Witness ==
  /\ Scored
  /\ result.locals.calcula_tendencia
  /\ datados(agora - 30, agora - 30) = 1
  /\ datados(agora - 60, agora - 60) = 1
  /\ datados(agora - 61, agora - 61) > 0
  /\ result.locals.crimes_ultimos_30 = datados(agora - 29, agora) + 1
  /\ result.locals.crimes_30_anteriores = datados(agora - 59, agora - 31) + 1

\* C12: the trend label of the synergistic assessment follows the comparison
\* of the last 30 days with the 30 days before: Crescente above +20%,
\* Decrescente below -20%, Estável otherwise
C12_SynergisticTrend ==
  (Analysed /\ result.total_crimes > 0 /\ "Data_Registro" \in df_crimes.columns) =>
    result.analise_temporal.tendencia_crimes =
      label_by_change(datados(agora - 30, agora), datados(agora - 60, agora - 31))

(***************************************************************************)
(* Effectiveness and recommendations of the synergistic analysis           *)
(***************************************************************************)
\* the effectiveness as the specification writes it, in percent:
\* (a/c * 0.4 + (w + kg)/c * 0.3 + o/c * 0.3) * 100, and 0 without crimes
efetividade_spec(res) ==
  LET c == res.total_crimes
      a == res.prisoes_realizadas
      w == res.apreensoes_armas
      g == res.locals.apreensoes_drogas
      o == res.operacoes_ativas
  IN  IF c > 0
        THEN Frac(10 * (4 * GramsPerKg * a + 3 * (GramsPerKg * w + g) + 3 * GramsPerKg * o),
                  GramsPerKg * c)
        ELSE FromInt(0)

\* C13: the effectiveness is (arrests/crimes * 0.4 + (weapons + drugs_kg)/crimes
\* * 0.3 + active_operations/crimes * 0.3) * 100 with crimes, 0 without, and
\* is returned rounded to two decimals
C13_Effectiveness ==
  Analysed =>
    /\ FEq(result.locals.efetividade_global, efetividade_spec(result))
    /\ result.efetividade_global = round2(efetividade_spec(result))
    /\ result.total_crimes = 0 => result.efetividade_global = 0

\* arrests, weapons, a fractional weight of drugs and an active operation
\* over several crimes
C13_Witness ==
  /\ Analysed
  /\ result.total_crimes > 2
  /\ result.prisoes_realizadas > 0
  /\ result.apreensoes_armas > 0
  /\ result.locals.apreensoes_drogas % GramsPerKg # 0
  /\ result.operacoes_ativas > 0
  /\ result.efetividade_global > 0
  /\ result.efetividade_global % 100 # 0

\* C14: the effectiveness returned lies in [0, 100] (hundredths of a percent
\* in the model), also with many arrests or seizures over few crimes
C14_EffectivenessClamped ==
  Analysed => result.efetividade_global >= 0 /\ result.efetividade_global <= 100 * 100

Revisar == "Revisar protocolos de uso da força"

ImplementarOperacoes == "Implementar operações policiais no bairro"

FocarPrisoes == "Focar em operações com prisões efetivas"

\* the indices of the list at which the item stands
posicoes(lista, item) == {i \in DOMAIN lista : lista[i] = item}

\* C15: with deaths in confrontation the recommendations include the review
\* of the use-of-force protocols, whatever the level
C15_DeathsRule ==
  (Analysed /\ result.mortes_confronto > 0) =>
    posicoes(result.recomendacoes, Revisar) # {}

\* the items every assessment of the level starts with
itens_do_nivel(nome) ==
  IF nome \in {"Crítico", "Muito Alto"}
    THEN <<"URGENT: Aumentar patrulhamento imediatamente",
           "Implementar operações preventivas intensivas",
           "Reforçar segurança pública e iluminação">>
  ELSE IF nome = "Alto"
    THEN <<"Intensificar patrulhamento preventivo",
           "Implementar operações especiais focadas",
           "Monitorar pontos críticos identificados">>
  ELSE IF nome \in {"Médio-Alto", "Médio"}
    THEN <<"Manter vigilância regular",
           "Implementar ações comunitárias de segurança",
           "Focar em prevenção situacional">>
  ELSE <<"Manter ações preventivas atuais">>

\* C16: the list starts with the items of the level; after them the item to
\* implement operations stands exactly when there are no operations and more
\* than 5 crimes, and after it the item to focus on arrests exactly when
\* there are no arrests and more than 10 crimes; neither depends on the level
\* or on the other
C16_RecommendationOrder ==
  Analysed =>
    LET rec == result.recomendacoes
        base == itens_do_nivel(result.nivel_risco)
        p1 == posicoes(rec, ImplementarOperacoes)
        p2 == posicoes(rec, FocarPrisoes)
    IN  /\ Len(rec) >= Len(base)
        /\ SubSeq(rec, 1, Len(base)) = base
        /\ Cardinality(p1) = IF result.total_operacoes = 0 /\ result.total_crimes > 5 THEN 1 ELSE 0
        /\ Cardinality(p2) = IF result.prisoes_realizadas = 0 /\ result.total_crimes > 10 THEN 1 ELSE 0
        /\ \A i \in p1 \cup p2 : i > Len(base)
        /\ \A i \in p1 : \A j \in p2 : i < j

\* the rule of the arrests fires without the rule of the operations, after
\* the four items of a level Crítico or Muito Alto with deaths
C16_Witness ==
  /\ Analysed
  /\ result.total_crimes > 10
  /\ result.total_operacoes > 0
  /\ result.prisoes_realizadas = 0
  /\ result.mortes_confronto > 0
  /\ result.nivel_risco \in {"Crítico", "Muito Alto"}
  /\ posicoes(result.recomendacoes, ImplementarOperacoes) = {}
  /\ posicoes(result.recomendacoes, FocarPrisoes) = {5}

(***************************************************************************)
(* Tables in which some records carry a timestamp that cannot be parsed    *)
(***************************************************************************)
MalformedRecent == 6
MalformedPrior == 3
MalformedBad == 2

\* records of Centro Histórico of today and of 31 days ago, records of
\* Centro Histórico with an unparseable timestamp, and one record of another
\* neighbourhood whose timestamp may be unparseable too
InitMalformed ==
  /\ \E n0 \in 0..MalformedRecent, n31 \in 0..MalformedPrior, nbad \in 0..MalformedBad,
        outro_bad \in BOOLEAN, com_data \in BOOLEAN :
       df_crimes =
         Frame(IF com_data THEN CrimeColumns ELSE CrimeColumns \ {"Data_Registro"},
               Copies(Dated(Hoje), n0) (+) Copies(Dated(Hoje - 31), n31)
                 (+) Copies(Dated(BadDate), nbad)
                 (+) Copies(Crime(Str("RESTINGA", "title", FALSE), Roubo,
                                  IF outro_bad THEN BadDate ELSE Hoje + 10,
                                  0, 0, 0, 0, 0, "Nenhuma"), 1))
  /\ df_operacoes = NoFrame
  /\ bairro = CentroHistorico
  /\ bairros_selecionados = {}
  /\ geojson_data = GeoLoaded
  /\ df_seguranca = NoIndex
  /\ pc = "start"
  /\ result = NoResult

NextMalformed == RiskScoreCall \/ Analyse

SpecMalformed == InitMalformed /\ [][NextMalformed]_vars

\* the records of the neighbourhood whose timestamp parses
bem_datados == {r \in do_bairro : r.Data_Registro # BadDate}

\* the latest parseable date of the neighbourhood
agora_valido == CHOOSE d \in {r.Data_Registro : r \in bem_datados} :
                  \A r \in bem_datados : r.Data_Registro <= d

\* C17: a record with an unparseable timestamp raises nothing in either
\* function; it is counted in total_crimes and left out of the count of the
\* last 30 days
C17_MalformedTolerated ==
  (pc \in {"risk_score", "synergistic"} /\ "Data_Registro" \in df_crimes.columns) =>
    /\ ~result.raised
    /\ result.total_crimes = conta_em(df_crimes.rows, do_bairro)
    /\ (pc = "synergistic" /\ bem_datados # {}) =>
         result.analise_temporal.crimes_ultimo_mes =
           conta_em(df_crimes.rows,
                    {r \in bem_datados : r.Data_Registro >= agora_valido - 30})

(***************************************************************************)
(* RiskMapGenerator (src/modules/visualization.py): the fallback scorer    *)
(* and the statistics per neighbourhood                                    *)
(***************************************************************************)
\* RiskMapGenerator._calculate_risk_score: min(100, score)
_calculate_risk_score(crimes, operacoes, mortes) ==
  LET score_base == crimes + (IF mortes > 0 THEN mortes * 50 ELSE 0)
      score ==
        IF operacoes > 0 /\ crimes > 0
          THEN LET efetividade == FMin(Frac(2, 5), Frac(operacoes, crimes))
               IN  FMul(FromInt(score_base),
                        Frac(efetividade[2] - efetividade[1], efetividade[2]))
          ELSE FromInt(score_base)
  IN  FMin(FromInt(100), score)

\* RiskMapGenerator._calculate_risk_level: the label as <<emoji, name>>
_calculate_risk_level(crimes, operacoes, mortes) ==
  LET score == _calculate_risk_score(crimes, operacoes, mortes)
  IN  IF FGeq(score, 80) THEN <<"black_circle", "Crítico">>
      ELSE IF FGeq(score, 60) THEN <<"red_circle", "Muito Alto">>
      ELSE IF FGeq(score, 40) THEN <<"orange_circle", "Alto">>
      ELSE IF FGeq(score, 25) THEN <<"yellow_circle", "Médio-Alto">>
      ELSE IF FGeq(score, 15) THEN <<"yellow_circle", "Médio">>
      ELSE IF FGeq(score, 8) THEN <<"green_circle", "Baixo-Médio">>
      ELSE IF FGeq(score, 3) THEN <<"green_circle", "Baixo">>
      ELSE <<"green_circle", "Muito Baixo">>

\* RiskMapGenerator._calculate_risk_color
_calculate_risk_color(crimes, operacoes, mortes) ==
  LET score == _calculate_risk_score(crimes, operacoes, mortes)
  IN  IF FGeq(score, 80) THEN "#2B0000"
      ELSE IF FGeq(score, 60) THEN "#8B0000"
      ELSE IF FGeq(score, 40) THEN "#FF0000"
      ELSE IF FGeq(score, 25) THEN "#FF4500"
      ELSE IF FGeq(score, 15) THEN "#FFA500"
      ELSE IF FGeq(score, 8) THEN "#FFD700"
      ELSE IF FGeq(score, 3) THEN "#FFFF00"
      ELSE "#90EE90"

\* the orders of the values V by their positions pos: a value of an earlier
\* position comes first, values of the same position in any order
RECURSIVE by_first_row(_, _)
by_first_row(V, pos) ==
  IF V = {} THEN {<<>>}
  ELSE LET firsts == {v \in V : \A u \in V : pos[v] <= pos[u]}
       IN  UNION {{<<v>> \o t : t \in by_first_row(V \ {v}, pos)} : v \in firsts}

\* df['bairro'].unique(): the distinct names, the missing one included, in
\* the order of their first rows; the set of the orders the rows allow
unique(df) ==
  LET V == {r.bairro : r \in DOMAIN df.rows}
      first_row(v) ==
        CHOOSE n \in {r.ordem : r \in {x \in DOMAIN df.rows : x.bairro = v}} :
          \A r \in {x \in DOMAIN df.rows : x.bairro = v} : n <= r.ordem
  IN  by_first_row(V, [v \in V |-> first_row(v)])

\* a list in the place of the dict: every value goes to the end
dict_append(stats, valor) == Append(stats, valor)

\* stats[chave] = valor: a new key goes to the end, a key already present
\* keeps its place and gets the new value
dict_set(stats, valor) ==
  IF \E i \in DOMAIN stats : stats[i].chave = valor.chave
    THEN [i \in DOMAIN stats |-> IF stats[i].chave = valor.chave THEN valor ELSE stats[i]]
    ELSE Append(stats, valor)

\* the entry built from the synergistic analysis of the neighbourhood
stats_from_analysis(nome, bairro_normalizado, analise_completa) ==
  [chave |-> bairro_normalizado,
   nome_original |-> nome,
   fallback |-> FALSE,
   total_crimes |-> analise_completa.total_crimes,
   total_operacoes |-> analise_completa.total_operacoes,
   mortes_confronto |-> analise_completa.mortes_confronto,
   prisoes_realizadas |-> analise_completa.prisoes_realizadas,
   apreensoes_armas |-> analise_completa.apreensoes_armas,
   apreensoes_drogas |-> analise_completa.apreensoes_drogas,
   operacoes_ativas |-> analise_completa.operacoes_ativas,
   efetividade_global |-> analise_completa.efetividade_global,
   emoji |-> analise_completa.emoji,
   nivel_risco |-> analise_completa.nivel_risco,
   cor |-> analise_completa.cor,
   score_risco |-> analise_completa.score_sinergico,
   recomendacoes |-> analise_completa.recomendacoes]

\* the entry of the except branch: the basic score of the number of records
stats_fallback(nome, bairro_normalizado, total_crimes) ==
  [chave |-> bairro_normalizado,
   nome_original |-> nome,
   fallback |-> TRUE,
   total_crimes |-> total_crimes,
   total_operacoes |-> 0,
   mortes_confronto |-> 0,
   prisoes_realizadas |-> 0,
   apreensoes_armas |-> 0,
   apreensoes_drogas |-> 0,
   operacoes_ativas |-> 0,
   efetividade_global |-> 0,
   emoji |-> _calculate_risk_level(total_crimes, 0, 0)[1],
   nivel_risco |-> _calculate_risk_level(total_crimes, 0, 0)[2],
   cor |-> _calculate_risk_color(total_crimes, 0, 0),
   \* in hundredths, as score_sinergico
   score_risco |-> round2(_calculate_risk_score(total_crimes, 0, 0)),
   recomendacoes |-> <<>>]

\* try: the entry of the analysis; except: the entry of the fallback
stats_try(crimes, nome, bairro_normalizado, analise_completa) ==
  IF ~analise_completa.raised
    THEN stats_from_analysis(nome, bairro_normalizado, analise_completa)
    ELSE stats_fallback(nome, bairro_normalizado,
                        df_len(filter_bairro(crimes, bairro_normalizado)))

\* the entry of one neighbourhood of the loop
stats_entry(crimes, operacoes, nome) ==
  stats_try(crimes, nome, str_strip(str_upper(nome)),
            calculate_synergistic_security_analysis(crimes, operacoes, nome))

\* the loop over bairros_unicos: a missing or blank name is skipped
RECURSIVE stats_loop(_, _, _, _)
stats_loop(crimes, operacoes, bairros_unicos, stats) ==
  IF bairros_unicos = <<>> THEN stats
  ELSE LET nome == Head(bairros_unicos)
       IN  IF pd_isna(nome) \/ nome.txt = ""
             THEN stats_loop(crimes, operacoes, Tail(bairros_unicos), stats)
             ELSE stats_loop(crimes, operacoes, Tail(bairros_unicos),
                             dict_set(stats, stats_entry(crimes, operacoes, nome)))

\* RiskMapGenerator._calculate_neighborhood_stats, the dict as the sequence
\* of its values in insertion order; bairros_unicos is df_crimes['bairro'].unique()
_calculate_neighborhood_stats(crimes, operacoes, bairros_unicos) ==
  IF df_empty(crimes) THEN <<>>
  ELSE stats_loop(crimes, operacoes, bairros_unicos, <<>>)

(***************************************************************************)
(* Tables and calls with a missing neighbourhood name                      *)
(***************************************************************************)
MissingKinds == 2
MissingCopies == 2

\* a name of whitespace only
Blank == Str("", "upper", TRUE)

\* the rows of the tables: the spellings of MatchRows, the missing name
\* among them, and a blank name
MissingRows ==
  MatchRows \cup {Crime(Blank, Furto, Hoje, 0, 0, 0, 0, 0, "Nenhuma")}

\* the names a caller asks for, the missing name among them
MissingTargets == {CentroHistorico, Str("FLORESTA", "title", FALSE), NaN}

InitMissing ==
  /\ \E S \in SUBSET MissingRows :
       /\ Cardinality(S) <= MissingKinds
       /\ \E f \in [S -> 1..MissingCopies] :
            df_crimes = IF S = {} THEN EmptyFrame ELSE Frame(CrimeColumns, f)
  /\ df_operacoes \in MatchOperacoes
  /\ bairro \in MissingTargets
  /\ bairros_selecionados = {}
  /\ geojson_data = GeoLoaded
  /\ df_seguranca = NoIndex
  /\ pc = "start"
  /\ result = NoResult

\* a call of _calculate_neighborhood_stats(df_crimes, df_operacoes)
NeighborhoodStats ==
  /\ pc = "start"
  /\ \E bairros_unicos \in unique(df_crimes) :
       result' = [raised |-> FALSE,
                  stats |-> _calculate_neighborhood_stats(df_crimes, df_operacoes, bairros_unicos)]
  /\ pc' = "stats"
  /\ UNCHANGED <<df_crimes, df_operacoes, bairro, bairros_selecionados, geojson_data, df_seguranca>>

NextMissing == Analyse \/ RiskScoreCall \/ NeighborhoodStats

SpecMissing == InitMissing /\ [][NextMissing]_vars

\* the number of records whose name is present and equals alvo up to letter
\* case and surrounding whitespace; none for a missing alvo
registos_com_nome(alvo) ==
  conta_em(df_crimes.rows,
           {r \in DOMAIN df_crimes.rows :
              ~pd_isna(r.bairro) /\ ~pd_isna(alvo) /\ r.bairro.txt = alvo.txt})

\* C18: a missing name is no match and no error: a call for a missing target
\* returns the zero aggregate, and the records without a name are counted
\* for no neighbourhood, in calculate_risk_score, in
\* calculate_synergistic_security_analysis and in _calculate_neighborhood_stats
C18_MissingIsNoMatch ==
  /\ pc \in {"risk_score", "synergistic"} =>
       /\ ~result.raised
       /\ result.total_crimes = registos_com_nome(bairro)
       /\ pd_isna(bairro) => result.total_crimes = 0
  /\ pc = "stats" =>
       /\ ~result.raised
       /\ \A i \in DOMAIN result.stats :
            /\ ~pd_isna(result.stats[i].nome_original)
            /\ result.stats[i].total_crimes = registos_com_nome(result.stats[i].nome_original)

(***************************************************************************)
(* The colour of an assessment                                             *)
(***************************************************************************)
\* the palette of the eight levels, from Crítico to Muito Baixo
palette ==
  [n \in {"Crítico", "Muito Alto", "Alto", "Médio-Alto", "Médio", "Baixo-Médio",
          "Baixo", "Muito Baixo"} |->
     CASE n = "Crítico" -> "#2B0000"
       [] n = "Muito Alto" -> "#8B0000"
       [] n = "Alto" -> "#FF0000"
       [] n = "Médio-Alto" -> "#FF4500"
       [] n = "Médio" -> "#FFA500"
       [] n = "Baixo-Médio" -> "#FFD700"
       [] n = "Baixo" -> "#FFFF00"
       [] n = "Muito Baixo" -> "#90EE90"]

\* C19: the field cor of an assessment and the colour that
\* get_color_based_on_synergistic_analysis gives it are both the colour of
\* its level in the palette of eight distinct colours
C19_ColourByLevel ==
  /\ \A m, n \in DOMAIN palette : m # n => palette[m] # palette[n]
  /\ pc = "coloured" =>
       /\ result.analysis_data.cor = palette[result.analysis_data.nivel_risco]
       /\ result.color = palette[result.analysis_data.nivel_risco]
       /\ result.color = result.analysis_data.cor

(***************************************************************************)
(* export_report (src/modules/visualization.py)                            *)
(***************************************************************************)
col_min(df, col) ==
  CHOOSE m \in {r[col] : r \in DOMAIN df.rows} :
    \A r \in DOMAIN df.rows : m <= r[col]

\* the items in ascending order of score_risco
sorted_ascending(stats) ==
  LET antes(j, i) ==
        \/ stats[j].score_risco < stats[i].score_risco
        \/ stats[j].score_risco = stats[i].score_risco /\ j < i
      lugar(i) == 1 + Cardinality({j \in DOMAIN stats : antes(j, i)})
  IN  [p \in DOMAIN stats |-> stats[CHOOSE i \in DOMAIN stats : lugar(i) = p]]

\* sorted(neighborhood_stats.items(), key=score_risco, reverse=True): a stable
\* sort, so an item stands after the items of a higher score and after the
\* items of the same score that precede it in the dict
sorted_reverse(stats) ==
  LET antes(j, i) ==
        \/ stats[j].score_risco > stats[i].score_risco
        \/ stats[j].score_risco = stats[i].score_risco /\ j < i
      lugar(i) == 1 + Cardinality({j \in DOMAIN stats : antes(j, i)})
  IN  [p \in DOMAIN stats |-> stats[CHOOSE i \in DOMAIN stats : lugar(i) = p]]

\* f"{score:.1f}" of a score in hundredths: the nearest tenth, in tenths
format_1f(score) == round2(Frac(score, 1000))

\* the lines of the neighbourhoods: the first 15 of the sorted items, those
\* outside a non-empty selection left out
RECURSIVE report_lines_of(_, _)
report_lines_of(items, selecionados) ==
  IF items = <<>> THEN <<>>
  ELSE LET stats == Head(items)
           resto == report_lines_of(Tail(items), selecionados)
       IN  IF selecionados # {} /\ stats.nome_original \notin selecionados
             THEN resto
             ELSE <<[nome |-> stats.nome_original,
                     crimes |-> stats.total_crimes,
                     operacoes |-> stats.total_operacoes,
                     mortes |-> stats.mortes_confronto,
                     emoji |-> stats.emoji,
                     nivel |-> stats.nivel_risco,
                     score |-> stats.score_risco,
                     score_1f |-> format_1f(stats.score_risco)]>> \o resto

\* seq[:n]
first_n(seq, n) == SubSeq(seq, 1, IF Len(seq) < n THEN Len(seq) ELSE n)

\* the report of a non-empty table whose dates parse, given the statistics
\* of its neighbourhoods
report_of(crimes, total_operacoes, selecionados, neighborhood_stats) ==
  [raised |-> FALSE,
   sem_dados |-> FALSE,
   total_crimes |-> df_len(crimes),
   total_operacoes |-> total_operacoes,
   periodo |-> IF "Data_Registro" \in crimes.columns
                 THEN <<col_min(crimes, "Data_Registro"), col_max(crimes, "Data_Registro")>>
                 ELSE <<>>,
   linhas |-> report_lines_of(first_n(sorted_reverse(neighborhood_stats), 15), selecionados),
   recomendacao |-> IF total_operacoes = 0
                      THEN "Implementar operações policiais preventivas"
                    ELSE IF 10 * total_operacoes < df_len(crimes)
                      THEN "Aumentar frequência de operações policiais"
                    ELSE "",
   \* the value of the local variable
   locals |-> [neighborhood_stats |-> neighborhood_stats]]

\* export_report: the contents of the report; bairros_unicos is the order of
\* df_crimes['bairro'].unique() and selecionados the set of the names of
\* bairros_selecionados, empty for None or []
export_report(crimes, operacoes, selecionados, bairros_unicos) ==
  IF df_empty(crimes)
    THEN [raised |-> FALSE, sem_dados |-> TRUE, linhas |-> <<>>]
  ELSE IF "Data_Registro" \in crimes.columns /\ to_datetime_raises(crimes, "Data_Registro")
    THEN Raised
  ELSE report_of(crimes,
                 IF ~operacoes.none /\ ~df_empty(operacoes) THEN df_len(operacoes) ELSE 0,
                 selecionados,
                 IF "bairro" \in crimes.columns
                   THEN _calculate_neighborhood_stats(crimes, operacoes, bairros_unicos)
                   ELSE <<>>)

(***************************************************************************)
(* Tables of many neighbourhoods, for the report                           *)
(***************************************************************************)
ReportBairros == 17
ReportSteps == 3
ReportCrimes == 5

\* names of neighbourhoods of the mapping table
ReportNames ==
  <<"CENTRO HISTÓRICO", "RESTINGA", "PARTENON", "LOMBA DO PINHEIRO", "SARANDI",
    "RUBEM BERTA", "CAVALHADA", "MOINHOS DE VENTO", "PETRÓPOLIS", "FLORESTA",
    "BOM FIM", "CIDADE BAIXA", "MENINO DEUS", "AZENHA", "SANTANA", "TRISTEZA",
    "IPANEMA", "BELÉM NOVO", "HUMAITÁ", "NAVEGANTES">>

ReportName(i) == Str(ReportNames[i], "title", FALSE)

\* a row at a position of the table
At(row, i) == [row EXCEPT !.ordem = i]

\* n neighbourhoods, the i-th with 1 + (i * step) % ReportCrimes records at
\* the positions the direction gives; the neighbourhood hot has one record
\* with a death, and the first neighbourhood may have a last record that
\* spells its name in padded upper case
ReportTable(n, step, hot, invert, respell) ==
  LET pos(i) == IF invert THEN n + 1 - i ELSE i
      rows(i) ==
        Copies(At(Crime(ReportName(i), Furto, Hoje - i, 0, IF i = hot THEN 1 ELSE 0,
                        0, 0, 0, "Nenhuma"), pos(i)), 1)
          (+) Copies(At(Crime(ReportName(i), Roubo, Hoje - i, 0, 0, 0, 0, 0, "Nenhuma"),
                        pos(i)), (i * step) % ReportCrimes)
      RECURSIVE all(_)
      all(i) == IF i = 0 THEN EmptyBag ELSE rows(i) (+) all(i - 1)
  IN  Frame(CrimeColumns,
            all(n) (+) Copies(At(Crime(Str(ReportNames[1], "upper", TRUE), Furto, Hoje,
                                       0, 0, 0, 0, 0, "Nenhuma"), n + 1),
                              IF respell THEN 1 ELSE 0))

\* no operations table, or one with an operation of the second neighbourhood
\* whose date cannot be parsed
ReportOperacoes ==
  {NoFrame,
   Frame(OperacoesColumns, Copies(Operacao(ReportName(2), BadDate), 1)
                             (+) Copies(Operacao(ReportName(3), Hoje), 1))}

InitReport ==
  /\ \E n \in (ReportBairros - 2)..ReportBairros, step \in 1..ReportSteps,
        last \in BOOLEAN, hot \in {0, 2}, invert \in BOOLEAN, respell \in BOOLEAN :
       /\ df_crimes = ReportTable(n, step, IF last THEN n ELSE hot, invert, respell)
       /\ bairros_selecionados \in
            {{}, {ReportName(5), ReportName(n)}, {ReportName(1), ReportName(10)}}
  /\ df_operacoes \in ReportOperacoes
  /\ bairro = NaN
  /\ geojson_data = GeoLoaded
  /\ df_seguranca = NoIndex
  /\ pc = "start"
  /\ result = NoResult

\* a call of export_report(df_crimes, df_operacoes, bairros_selecionados)
ExportReport ==
  /\ pc = "start"
  /\ \E bairros_unicos \in unique(df_crimes) :
       result' = export_report(df_crimes, df_operacoes, bairros_selecionados, bairros_unicos)
  /\ pc' = "report"
  /\ UNCHANGED <<df_crimes, df_operacoes, bairro, bairros_selecionados, geojson_data, df_seguranca>>

NextReport == ExportReport

SpecReport == InitReport /\ [][NextReport]_vars

Reported == pc = "report" /\ ~result.raised

\* the neighbourhoods the report may list: all of them without a selection,
\* the selected ones with one
elegivel(stats) == bairros_selecionados = {} \/ stats.nome_original \in bairros_selecionados

listado(stats) == \E i \in DOMAIN result.linhas : result.linhas[i].nome = stats.nome_original

\* C20: the lines of the neighbourhoods are in non-increasing order of score,
\* in the score and in its printed form, and no neighbourhood that may be
\* listed and is not has a higher score than a listed one
C20_ReportOrder ==
  Reported =>
    /\ \A i, j \in DOMAIN result.linhas :
         i < j => /\ result.linhas[i].score >= result.linhas[j].score
                  /\ result.linhas[i].score_1f >= result.linhas[j].score_1f
    /\ \A k \in DOMAIN result.locals.neighborhood_stats :
         LET stats == result.locals.neighborhood_stats[k]
         IN  (elegivel(stats) /\ ~listado(stats)) =>
               \A i \in DOMAIN result.linhas : stats.score_risco <= result.linhas[i].score

\* more than 15 neighbourhoods and a selection of two: one of the two is cut
\* off by the limit of 15 and the other is listed
C20_Witness ==
  /\ Reported
  /\ Len(result.locals.neighborhood_stats) > 15
  /\ bairros_selecionados # {}
  /\ Len(result.linhas) = 1
  /\ \E k \in DOMAIN result.locals.neighborhood_stats :
       /\ elegivel(result.locals.neighborhood_stats[k])
       /\ ~listado(result.locals.neighborhood_stats[k])

(***************************************************************************)
(* Integrated crime tables analysed without an operations table: several   *)
(* neighbourhoods, equal rows, a column that may be absent                 *)
(***************************************************************************)
IntegratedCopies == 2

\* the columns the analysis looks for with "in crimes_bairro.columns"
OptionalColumns == CrimeColumns \ {"bairro", "tipo_crime"}

Floresta == Str("FLORESTA", "title", FALSE)

\* a table of a, b and c equal rows of three spellings and m rows without a
\* name; the columns of the set dropped are absent
IntegratedTable(a, b, c, m, dropped) ==
  LET v(col, x) == IF col \in dropped THEN 0 ELSE x
      tipo(x) == IF "tipo_operacao" \in dropped THEN "Nenhuma" ELSE x
      row(nome, pol, mor, pri, arm, dro, op) ==
        Crime(nome, Furto, v("Data_Registro", Hoje),
              v("policiais_envolvidos", pol), v("mortes_intervencao_policial", mor),
              v("prisoes_realizadas", pri), v("apreensoes_armas", arm),
              v("apreensoes_drogas_kg", dro), tipo(op))
  IN  Frame(CrimeColumns \ dropped,
            Copies(row(CentroHistorico, 2, 0, 1, 1, 2500, "Preventiva"), a)
              (+) Copies(row(Str("CENTRO HISTÓRICO", "upper", TRUE), 0, 1, 0, 0, 1200, "Nenhuma"), b)
              (+) Copies(row(Str("RESTINGA", "title", FALSE), 1, 1, 2, 0, 0, "Combate"), c)
              (+) Copies(row(NaN, 1, 1, 1, 1, 1000, "Patrulha"), m))

InitIntegrated ==
  /\ \E a \in 0..IntegratedCopies, b \in 0..IntegratedCopies,
        c \in 0..IntegratedCopies, m \in 0..1,
        dropped \in {{}, OptionalColumns} \cup {{col} : col \in OptionalColumns} :
       df_crimes = IntegratedTable(a, b, c, m, dropped)
  /\ df_operacoes = NoFrame
  \* a neighbourhood of the table, or one of no record
  /\ bairro \in {r.bairro : r \in {x \in DOMAIN df_crimes.rows : ~pd_isna(x.bairro)}}
                  \cup {Floresta}
  /\ bairros_selecionados = {}
  /\ geojson_data = GeoLoaded
  /\ df_seguranca = NoIndex
  /\ pc = "start"
  /\ result = NoResult

NextIntegrated == Analyse

SpecIntegrated == InitIntegrated /\ [][NextIntegrated]_vars

\* the sum of the column col over the records of the set S, 0 for a column
\* the table does not have
RECURSIVE soma_em(_, _)
soma_em(S, col) ==
  IF col \notin df_crimes.columns \/ S = {} THEN 0
  ELSE LET r == CHOOSE x \in S : TRUE
       IN  r[col] * df_crimes.rows[r] + soma_em(S \ {r}, col)

\* C21: with df_operacoes = None the analysis of every neighbourhood of an
\* integrated crime table ends without an error, total_crimes is the number
\* of the records of the neighbourhood, arrests, weapons, drugs and deaths
\* are the sums of their columns over these records (0 for an absent
\* column; the drugs returned rounded to 2 decimals), and the active
\* operations are the records whose operation type is not 'Nenhuma'
C21_CrimesOnly ==
  (pc = "synergistic" /\ df_operacoes.none) =>
    /\ ~result.raised
    /\ result.total_crimes = conta_em(df_crimes.rows, do_bairro)
    /\ result.prisoes_realizadas = soma_em(do_bairro, "prisoes_realizadas")
    /\ result.apreensoes_armas = soma_em(do_bairro, "apreensoes_armas")
    /\ result.locals.apreensoes_drogas = soma_em(do_bairro, "apreensoes_drogas_kg")
    /\ result.apreensoes_drogas
         = round2(Frac(soma_em(do_bairro, "apreensoes_drogas_kg"), GramsPerKg))
    /\ result.mortes_confronto = soma_em(do_bairro, "mortes_intervencao_policial")
    /\ result.operacoes_ativas
         = IF "tipo_operacao" \in df_crimes.columns
             THEN conta_em(df_crimes.rows, {r \in do_bairro : r.tipo_operacao # "Nenhuma"})
             ELSE 0

\* equal rows of two spellings are added up and the arrests column is absent
C21_Witness ==
  /\ pc = "synergistic"
  /\ df_operacoes.none
  /\ "prisoes_realizadas" \notin df_crimes.columns
  /\ result.prisoes_realizadas = 0
  /\ result.apreensoes_armas = 2
  /\ result.mortes_confronto = 2
  /\ result.total_crimes = 4
  /\ result.operacoes_ativas = 2

(***************************************************************************)
(* create_risk_map on the module-level RiskMapGenerator                    *)
(* (src/modules/visualization.py)                                          *)
(***************************************************************************)
\* the dict stored under stats[bairro_normalizado], key by key; nivel_risco
\* is the pair of the emoji and the name of the level; the HTML text of
\* popup_content is left out
stats_dict(entry) ==
  [nome_original |-> entry.nome_original,
   total_crimes |-> entry.total_crimes,
   total_operacoes |-> entry.total_operacoes,
   mortes_confronto |-> entry.mortes_confronto,
   prisoes_realizadas |-> entry.prisoes_realizadas,
   apreensoes_armas |-> entry.apreensoes_armas,
   apreensoes_drogas |-> entry.apreensoes_drogas,
   operacoes_ativas |-> entry.operacoes_ativas,
   efetividade_global |-> entry.efetividade_global,
   nivel_risco |-> <<entry.emoji, entry.nivel_risco>>,
   cor |-> entry.cor,
   score_risco |-> entry.score_risco,
   recomendacoes |-> entry.recomendacoes]

\* the dict literal of the else branch, "Bairro sem dados"
sem_dados ==
  [total_crimes |-> 0,
   total_operacoes |-> 0,
   mortes_confronto |-> 0,
   nivel_risco |-> <<"green_circle", "Muito Baixo">>,
   cor |-> "#90EE90",
   score_risco |-> 0]

\* d.update(e): the keys of e are set, the other keys of d stay
dict_update(d, e) ==
  [k \in DOMAIN d \cup DOMAIN e |-> IF k \in DOMAIN e THEN e[k] ELSE d[k]]

\* the loop of _add_geojson_layer over the features of the shared object
_add_geojson_layer(geo, stats) ==
  [none |-> FALSE,
   features |->
     [i \in DOMAIN geo.features |->
        LET bairro_nome == str_strip(str_upper(geo.features[i].NOME))
        IN  IF \E j \in DOMAIN stats : stats[j].chave = bairro_nome
              THEN dict_update(geo.features[i],
                               stats_dict(stats[CHOOSE j \in DOMAIN stats : stats[j].chave = bairro_nome]))
              ELSE dict_update(geo.features[i], sem_dados)]]

\* create_risk_map after the statistics are computed: the new value of
\* self.geojson_data and the layer added to the map
render_map(geo, neighborhood_stats) ==
  IF neighborhood_stats = <<>> THEN [geo |-> geo, layer |-> "none", stats |-> neighborhood_stats]
  ELSE IF ~geo.none
    THEN [geo |-> _add_geojson_layer(geo, neighborhood_stats), layer |-> "geojson",
          stats |-> neighborhood_stats]
    ELSE [geo |-> geo, layer |-> "markers", stats |-> neighborhood_stats]

RiskMapGenerator_create_risk_map(geo, crimes, operacoes, bairros_unicos) ==
  render_map(geo, _calculate_neighborhood_stats(crimes, operacoes, bairros_unicos))

\* the rows of the tables given to create_risk_map: two spellings of Centro
\* Histórico, one with arrests and seizures, two of Restinga, one with a
\* death and one with seizures, and a neighbourhood that has no feature
RiskMapRows ==
  {At(Crime(CentroHistorico, Furto, Hoje, 1, 0, 1, 1, 1000, "Combate"), 1),
   At(Crime(Str("CENTRO HISTÓRICO", "upper", TRUE), Furto, Hoje, 0, 0, 0, 0, 0, "Nenhuma"), 2),
   At(Crime(Str("RESTINGA", "title", FALSE), Roubo, Hoje, 0, 1, 0, 0, 0, "Nenhuma"), 3),
   At(Crime(Str("RESTINGA", "lower", FALSE), Furto, Hoje, 2, 0, 0, 1, 500, "Patrulha"), 4),
   At(Crime(Str("SARANDI", "title", FALSE), Furto, Hoje, 0, 0, 1, 0, 0, "Nenhuma"), 5)}

\* a table of any of these rows, and the empty table
RiskMapTables ==
  {IF S = {} THEN EmptyFrame ELSE Frame(CrimeColumns, [r \in S |-> 1]) :
     S \in SUBSET RiskMapRows}

\* the generator after the import of the module: the GeoJSON file loaded, or
\* None when the file is not found; no call of create_risk_map yet
InitRiskMap ==
  /\ df_crimes = EmptyFrame
  /\ df_operacoes = NoFrame
  /\ bairro = NaN
  /\ bairros_selecionados = {}
  /\ geojson_data \in {GeoLoaded, [none |-> TRUE, features |-> <<>>]}
  /\ df_seguranca = NoIndex
  /\ pc = "start"
  /\ result = NoResult

\* a call of create_risk_map(df_crimes) with the table of this call
CreateRiskMap ==
  /\ pc \in {"start", "risk_map"}
  /\ \E crimes \in RiskMapTables :
       \E bairros_unicos \in unique(crimes) :
         LET m == RiskMapGenerator_create_risk_map(geojson_data, crimes, df_operacoes, bairros_unicos)
         IN  /\ df_crimes' = crimes
             /\ geojson_data' = m.geo
             /\ result' = [raised |-> FALSE, layer |-> m.layer, stats |-> m.stats]
  /\ pc' = "risk_map"
  /\ UNCHANGED <<df_operacoes, bairro, bairros_selecionados, df_seguranca>>

NextRiskMap == CreateRiskMap

SpecRiskMap == InitRiskMap /\ [][NextRiskMap]_vars

\* the number of records of the latest table whose name is the name of the
\* feature up to letter case and surrounding whitespace
registos_da_feature(props) ==
  conta_em(df_crimes.rows,
           {r \in DOMAIN df_crimes.rows : ~pd_isna(r.bairro) /\ r.bairro.txt = props.NOME.txt})

\* C22: after a call of create_risk_map that adds the GeoJSON layer, a
\* feature whose neighbourhood has no record in the table of this call shows
\* zero crimes, the level Muito Baixo and no arrests, seizures, active
\* operations, effectiveness or recommendations of an earlier call, and a
\* feature whose neighbourhood has records shows their number
C22_FreshProperties ==
  (pc = "risk_map" /\ result.layer = "geojson") =>
    \A i \in DOMAIN geojson_data.features :
      LET props == geojson_data.features[i]
      IN  /\ props.total_crimes = registos_da_feature(props)
          /\ registos_da_feature(props) = 0 =>
               /\ props.nivel_risco[2] = "Muito Baixo"
               /\ \A k \in {"prisoes_realizadas", "apreensoes_armas", "apreensoes_drogas",
                            "operacoes_ativas", "efetividade_global"} :
                    k \in DOMAIN props => props[k] = 0
               /\ "recomendacoes" \in DOMAIN props => props.recomendacoes = <<>>

(***************************************************************************)
(* Tables whose drug seizures are weighed to the gram, for the agreement   *)
(* of the returned score with the returned level                           *)
(***************************************************************************)
FractionCrimes == 16
FractionGrams == 3
FractionWeapons == 1

InitFraction ==
  /\ \E c \in 0..FractionCrimes, g \in 0..FractionGrams, w \in 0..FractionWeapons,
        p \in {0, 1, FractionCrimes \div 2} :
       /\ c = 0 => g = 0 /\ w = 0 /\ p = 0
       /\ df_crimes = ScoreTable(c, 0, 0, w, g, 0, p)
  /\ df_operacoes = NoFrame
  /\ bairro = CentroHistorico
  /\ bairros_selecionados = {}
  /\ geojson_data = GeoLoaded
  /\ df_seguranca = NoIndex
  /\ pc = "start"
  /\ result = NoResult

NextFraction == Analyse

SpecFraction == InitFraction /\ [][NextFraction]_vars

\* C23: the level returned is the level of the score returned: the eight
\* thresholds applied to score_sinergico, the score rounded to 2 decimals,
\* give nivel_risco
C23_ScoreLevelConsistent ==
  Analysed =>
    classify_synergistic(Frac(result.score_sinergico, 100)).nome = result.nivel_risco

(***************************************************************************)
(* The fallback scorer of _calculate_neighborhood_stats next to the        *)
(* synergistic analysis, on tables of plain records                        *)
(***************************************************************************)
FallbackCrimes == 130

\* n records of Centro Histórico without officers, deaths, arrests,
\* seizures or operations, and one record of another neighbourhood
InitFallback ==
  /\ \E n \in 0..FallbackCrimes : df_crimes = ScoreTable(n, 0, 0, 0, 0, 0, 0)
  /\ df_operacoes = NoFrame
  /\ bairro = CentroHistorico
  /\ bairros_selecionados = {}
  /\ geojson_data = GeoLoaded
  /\ df_seguranca = NoIndex
  /\ pc = "start"
  /\ result = NoResult

\* the level and the colour of the except branch for the neighbourhood just
\* analysed: _calculate_risk_level(total_crimes, 0, 0) and
\* _calculate_risk_color(total_crimes, 0, 0) of its number of records
FallbackCall ==
  /\ pc = "synergistic"
  /\ ~result.raised
  /\ LET bairro_normalizado == str_strip(str_upper(bairro))
         total_crimes == df_len(filter_bairro(df_crimes, bairro_normalizado))
     IN  result' = [raised |-> FALSE,
                    analise_completa |-> result,
                    total_crimes |-> total_crimes,
                    nivel_risco |-> _calculate_risk_level(total_crimes, 0, 0),
                    cor |-> _calculate_risk_color(total_crimes, 0, 0)]
  /\ pc' = "fallback"
  /\ UNCHANGED <<df_crimes, df_operacoes, bairro, bairros_selecionados, geojson_data, df_seguranca>>

NextFallback == Analyse \/ FallbackCall

SpecFallback == InitFallback /\ [][NextFallback]_vars

\* C24: for a neighbourhood of n records and no indicators the level and the
\* colour of the fallback scorer are those of the synergistic analysis
C24_FallbackAgrees ==
  pc = "fallback" =>
    /\ result.nivel_risco = <<result.analise_completa.emoji, result.analise_completa.nivel_risco>>
    /\ result.cor = result.analise_completa.cor

(***************************************************************************)
(* The statistics per neighbourhood as a partition of the records          *)
(***************************************************************************)
\* the records that have a name, not missing and not blank
com_nome == {r \in DOMAIN df_crimes.rows : ~pd_isna(r.bairro) /\ r.bairro.txt # ""}

\* the statistics computed by the call, by _calculate_neighborhood_stats
\* itself or inside export_report
estatisticas == IF pc = "stats" THEN result.stats ELSE result.locals.neighborhood_stats

RECURSIVE soma_total_crimes(_)
soma_total_crimes(stats) ==
  IF stats = <<>> THEN 0 ELSE Head(stats).total_crimes + soma_total_crimes(Tail(stats))

\* C25: the statistics have exactly one entry for every distinct upper-cased
\* and trimmed name of the table, the entry counts the records of all the
\* spellings of this name, and the counts add up to the number of records
\* that have a name, not missing and not blank
C25_StatsPartition ==
  (pc = "stats" \/ (pc = "report" /\ ~result.raised /\ ~result.sem_dados)) =>
    /\ {estatisticas[i].chave : i \in DOMAIN estatisticas}
         = {str_strip(str_upper(r.bairro)) : r \in com_nome}
    /\ \A i, j \in DOMAIN estatisticas :
         estatisticas[i].chave = estatisticas[j].chave => i = j
    /\ \A i \in DOMAIN estatisticas :
         estatisticas[i].total_crimes
           = conta_em(df_crimes.rows, {r \in com_nome : r.bairro.txt = estatisticas[i].chave.txt})
    /\ soma_total_crimes(estatisticas) = conta_em(df_crimes.rows, com_nome)

\* two spellings of one name share one entry that counts the records of both
C25_Witness ==
  /\ pc = "stats"
  /\ Cardinality({r.bairro : r \in com_nome}) = 2
  /\ Len(result.stats) = 1
  /\ result.stats[1].total_crimes = df_len(df_crimes)
  /\ result.stats[1].total_crimes >= 3

\* C26: with a non-empty selection every selected neighbourhood that has
\* records has a line in the report, whatever its rank among all the
\* neighbourhoods (the selections here have at most 15 names)
C26_SelectedListed ==
  (Reported /\ ~result.sem_dados /\ bairros_selecionados # {}) =>
    \A s \in bairros_selecionados :
      (\E r \in DOMAIN df_crimes.rows : r.bairro = s) =>
        \E i \in DOMAIN result.linhas : result.linhas[i].nome.txt = s.txt

(***************************************************************************)
(* Tables of records of several crime types, a missing type among them,    *)
(* for the range of the score of calculate_risk_score                      *)
(***************************************************************************)
TypeCopies == 2

\* 'furto_celulares' (no weight of its own: 1.0), 'Roubo' (3.0),
\* 'HOMICÍDIO' (5.0), 'Ameaça' (1.5) and a missing type
TypeValues ==
  {Furto, Str("ROUBO", "title", FALSE), Str("HOMICÍDIO", "upper", FALSE),
   Str("AMEAÇA", "title", FALSE), NaN}

\* a record of Centro Histórico of the type t and the day dia
Typed(t, dia) == Crime(CentroHistorico, t, dia, 0, 0, 0, 0, 0, "Nenhuma")

\* at most two types, up to TypeCopies records of each, recent or 40 days
\* old, next to an old record of another day to date the table, with or
\* without the column 'Data Registro'
InitTypes ==
  /\ \E S \in SUBSET TypeValues, old \in SUBSET TypeValues, datas \in BOOLEAN :
       /\ Cardinality(S) <= 2
       /\ old \subseteq S
       /\ \E f \in [S -> 1..TypeCopies] :
            df_crimes =
              IF S = {} THEN EmptyFrame
              ELSE Frame(IF datas THEN CrimeColumns ELSE CrimeColumns \ {"Data_Registro"},
                         [r \in {Typed(t, IF datas /\ t \in old THEN Hoje - 40 ELSE IF datas THEN Hoje ELSE 0) : t \in S}
                            |-> f[r.tipo_crime]])
  /\ df_operacoes = NoFrame
  /\ bairro \in {CentroHistorico, Floresta}
  /\ bairros_selecionados = {}
  /\ geojson_data = GeoLoaded
  /\ df_seguranca = NoIndex
  /\ pc = "start"
  /\ result = NoResult

NextTypes == RiskScoreCall

SpecTypes == InitTypes /\ [][NextTypes]_vars

\* C27: for a neighbourhood with at least one matching record the score of
\* calculate_risk_score is in [20, 100] and the level is never 'Muito Baixo'
C27_ScoreAtLeast20 ==
  (pc = "risk_score" /\ ~result.raised /\ result.total_crimes >= 1) =>
    /\ result.score_risco >= 2000
    /\ result.score_risco <= 10000
    /\ result.nivel_risco # "Muito Baixo"

(***************************************************************************)
(* calculate_enhanced_risk_score_with_police_ops                           *)
(***************************************************************************)
\* df[df['bairro'].str.upper() == bairro.upper()]: no strip on either side
filter_upper(df, alvo) ==
  df_filter(df, {r \in DOMAIN df.rows : str_eq(str_upper(r.bairro), str_upper(alvo))})

\* the if/elif chain on score_ajustado
classify_ajustado(score_ajustado) ==
  IF FGeq(score_ajustado, 80) THEN "Crítico"
  ELSE IF FGeq(score_ajustado, 60) THEN "Alto"
  ELSE IF FGeq(score_ajustado, 40) THEN "Médio"
  ELSE IF FGeq(score_ajustado, 20) THEN "Baixo"
  ELSE "Muito Baixo"

\* the function after risk_data = calculate_risk_score(df_crimes, bairro);
\* the scores in hundredths, fator_reducao in tenths of a percent
enhanced_of(risk_data, operacoes, alvo) ==
  IF risk_data.raised THEN Raised
  \* None has no attribute 'empty'
  ELSE IF operacoes.none THEN Raised
  ELSE IF df_empty(operacoes) THEN [raised |-> FALSE, ajustado |-> FALSE, risk_data |-> risk_data]
  \* bairro.upper() on a missing name
  ELSE IF pd_isna(alvo) THEN Raised
  ELSE LET total_operacoes == df_len(filter_upper(operacoes, alvo))
           fator_reducao == FMin(Frac(1, 2), Frac(total_operacoes * 5, 100))
           score_ajustado == FMul(Frac(risk_data.score_risco, 100),
                                  Frac(fator_reducao[2] - fator_reducao[1], fator_reducao[2]))
       IN  [raised |-> FALSE,
            ajustado |-> TRUE,
            risk_data |-> risk_data,
            total_operacoes |-> total_operacoes,
            score_risco_ajustado |-> round2(score_ajustado),
            fator_reducao |-> (1000 * fator_reducao[1]) \div fator_reducao[2],
            nivel_risco_ajustado |-> classify_ajustado(score_ajustado),
            \* the value of the local variable
            locals |-> [score_ajustado |-> score_ajustado]]

calculate_enhanced_risk_score_with_police_ops(crimes, operacoes, alvo) ==
  enhanced_of(calculate_risk_score(crimes, alvo), operacoes, alvo)

EnhancedKinds == 2
EnhancedCopies == 2
EnhancedOps == 11

\* no table, an empty one, or k operations of Centro Histórico next to two of
\* Restinga
EnhancedOperacoes ==
  {NoFrame, Frame(OperacoesColumns, EmptyBag)}
    \cup {Frame(OperacoesColumns,
                Copies(Operacao(Str("CENTRO HISTÓRICO", "upper", FALSE), Hoje), k)
                  (+) Copies(Operacao(Str("RESTINGA", "lower", TRUE), Hoje - 31), 2)) :
            k \in 0..EnhancedOps}

EnhancedTargets == {CentroHistorico, Str("RESTINGA", "title", FALSE), Floresta}

InitEnhanced ==
  /\ \E S \in SUBSET MatchRows :
       /\ Cardinality(S) <= EnhancedKinds
       /\ \E f \in [S -> 1..EnhancedCopies] :
            df_crimes = IF S = {} THEN EmptyFrame ELSE Frame(CrimeColumns, f)
  /\ df_operacoes \in EnhancedOperacoes
  /\ bairro \in EnhancedTargets
  /\ bairros_selecionados = {}
  /\ geojson_data = GeoLoaded
  /\ df_seguranca = NoIndex
  /\ pc = "start"
  /\ result = NoResult

\* a call of calculate_enhanced_risk_score_with_police_ops(df_crimes, df_operacoes, bairro)
EnhancedCall ==
  /\ pc = "start"
  /\ result' = calculate_enhanced_risk_score_with_police_ops(df_crimes, df_operacoes, bairro)
  /\ pc' = "enhanced"
  /\ UNCHANGED <<df_crimes, df_operacoes, bairro, bairros_selecionados, geojson_data, df_seguranca>>

NextEnhanced == EnhancedCall

SpecEnhanced == InitEnhanced /\ [][NextEnhanced]_vars

\* the call has adjusted the result: the operations table is not empty
Adjusted == pc = "enhanced" /\ ~result.raised /\ result.ajustado

\* C28: with a non-empty operations table of which no operation matches the
\* neighbourhood the adjusted score and the adjusted level are the base score
\* and the base level, also when no record matches the neighbourhood, and
\* the adjusted score is always between 50% and 100% of the base score
C28_NoOpsNoChange ==
  Adjusted =>
    /\ result.total_operacoes = 0 =>
         /\ result.score_risco_ajustado = result.risk_data.score_risco
         /\ result.nivel_risco_ajustado = result.risk_data.nivel_risco
    /\ FLeq(Frac(result.risk_data.score_risco, 200), result.locals.score_ajustado)
    /\ FLeq(result.locals.score_ajustado, Frac(result.risk_data.score_risco, 100))

(***************************************************************************)
(* generate_alerts                                                         *)
(***************************************************************************)
\* an entry of the list alerts; valor is crimes_count, aumento_percentual
\* or crimes_graves
Alert(t, b, p, v) == [tipo |-> t, bairro |-> b, prioridade |-> p, valor |-> v]

\* ['HOMICÍDIO', 'ROUBO', 'LATROCÍNIO', 'ESTUPRO'], compared letter by letter
crimes_graves_tipos ==
  {Str("HOMICÍDIO", "upper", FALSE), Str("ROUBO", "upper", FALSE),
   Str("LATROCÍNIO", "upper", FALSE), Str("ESTUPRO", "upper", FALSE)}

\* the body of the loop for one value of df_temp['bairro'].unique()
alerts_of_bairro(df_temp, nome, threshold_crimes, threshold_increase, data_mais_recente) ==
  IF pd_isna(nome) THEN <<>>
  ELSE
    LET data_30_dias == data_mais_recente - 30
        data_60_dias == data_mais_recente - 60
        \* df_temp['bairro'] == bairro: the same spelling
        df_bairro == df_filter(df_temp, {r \in DOMAIN df_temp.rows : r.bairro = nome})
        crimes_recentes == df_filter(df_bairro, {r \in DOMAIN df_bairro.rows : r.Data_Registro >= data_30_dias})
        total_recentes == df_len(crimes_recentes)
        total_anteriores ==
          df_len(df_filter(df_bairro, {r \in DOMAIN df_bairro.rows :
                                         /\ r.Data_Registro >= data_60_dias
                                         /\ r.Data_Registro < data_30_dias}))
        aumento_percentual == Frac(total_recentes - total_anteriores, total_anteriores)
        crimes_graves ==
          df_len(df_filter(crimes_recentes, {r \in DOMAIN crimes_recentes.rows :
                                               r.tipo_crime \in crimes_graves_tipos}))
        volume ==
          IF total_recentes >= threshold_crimes
            THEN <<Alert("Volume Alto", nome,
                         IF total_recentes >= threshold_crimes * 2 THEN "Alta" ELSE "Média",
                         total_recentes)>>
            ELSE <<>>
        aumento ==
          IF total_anteriores > 0 /\ FLeq(threshold_increase, aumento_percentual)
            THEN <<Alert("Aumento Significativo", nome,
                         IF FLeq(Frac(1, 2), aumento_percentual) THEN "Alta" ELSE "Média",
                         aumento_percentual)>>
            ELSE <<>>
        graves ==
          IF "tipo_crime" \in df_temp.columns /\ crimes_graves >= 3
            THEN <<Alert("Crimes Graves", nome, "Crítica", crimes_graves)>>
            ELSE <<>>
    IN  volume \o aumento \o graves

\* the loop over the names in the order of unique()
RECURSIVE alerts_loop(_, _, _, _, _)
alerts_loop(df_temp, bairros_unicos, threshold_crimes, threshold_increase, data_mais_recente) ==
  IF bairros_unicos = <<>> THEN <<>>
  ELSE alerts_of_bairro(df_temp, Head(bairros_unicos), threshold_crimes,
                        threshold_increase, data_mais_recente)
         \o alerts_loop(df_temp, Tail(bairros_unicos), threshold_crimes,
                        threshold_increase, data_mais_recente)

\* the list left as it was generated
alerts_unsorted(alerts) == alerts

\* alerts.sort(key=prioridade_ordem): a stable sort by the rank of the priority
alerts_sort(alerts) ==
  LET critica(a) == a.prioridade = "Crítica"
      alta(a) == a.prioridade = "Alta"
      media(a) == a.prioridade = "Média"
      outra(a) == a.prioridade \notin {"Crítica", "Alta", "Média"}
  IN  SelectSeq(alerts, critica) \o SelectSeq(alerts, alta)
        \o SelectSeq(alerts, media) \o SelectSeq(alerts, outra)

\* generate_alerts; bairros_unicos is the order of df_temp['bairro'].unique()
generate_alerts(df, threshold_crimes, threshold_increase, bairros_unicos) ==
  IF df_empty(df) THEN <<>>
  ELSE IF ~({"bairro", "Data_Registro"} \subseteq df.columns) THEN <<>>
  \* pd.to_datetime raises inside the try: the list is still empty
  ELSE IF to_datetime_raises(df, "Data_Registro") THEN alerts_sort(<<>>)
  ELSE alerts_sort(alerts_loop(df, bairros_unicos, threshold_crimes, threshold_increase,
                               col_max(df, "Data_Registro")))

AlertRecent == 4
AlertPrior == 3
AlertOther == 2

\* the records of two neighbourhoods, given by their numbers of records of
\* today, of 30 days ago, of 31 and of 60 days ago and of 61 days ago; the
\* recent records of the first are robberies or thefts, and either
\* neighbourhood comes first in the table; m records have no name
AlertTable(hoje, limite, antes, velho, outro_recente, outro_antes, graves, troca, m) ==
  LET a == IF troca THEN 2 ELSE 1
      b == IF troca THEN 1 ELSE 2
      tipo == IF graves THEN Str("ROUBO", "upper", FALSE) ELSE Furto
      reg(nome, t, dia, i) == At(Crime(nome, t, dia, 0, 0, 0, 0, 0, "Nenhuma"), i)
      restinga == Str("RESTINGA", "title", FALSE)
  IN  Frame(CrimeColumns,
            Copies(reg(CentroHistorico, tipo, Hoje, a), hoje)
              (+) Copies(reg(CentroHistorico, tipo, Hoje - 30, a), limite)
              (+) Copies(reg(CentroHistorico, Furto, Hoje - 31, a), antes)
              (+) Copies(reg(CentroHistorico, Furto, Hoje - 60, a), IF antes > 1 THEN 1 ELSE 0)
              (+) Copies(reg(CentroHistorico, Furto, Hoje - 61, a), velho)
              (+) Copies(reg(restinga, Str("HOMICÍDIO", "upper", FALSE), Hoje - 1, b), outro_recente)
              (+) Copies(reg(restinga, Furto, Hoje - 45, b), outro_antes)
              (+) Copies(reg(NaN, Furto, Hoje, 3), m))

InitAlerts ==
  /\ \E hoje \in 0..AlertRecent, limite \in 0..1, antes \in 0..AlertPrior, velho \in 0..1,
        outro_recente \in {0, 1, AlertOther + 1}, outro_antes \in 0..AlertOther,
        graves \in BOOLEAN, troca \in BOOLEAN, m \in 0..1 :
       df_crimes = AlertTable(hoje, limite, antes, velho, outro_recente, outro_antes,
                              graves, troca, m)
  /\ df_operacoes = NoFrame
  /\ bairro = NaN
  /\ bairros_selecionados = {}
  /\ geojson_data = GeoLoaded
  /\ df_seguranca = NoIndex
  /\ pc = "start"
  /\ result = NoResult

\* a call of generate_alerts(df_crimes, threshold_crimes, threshold_increase)
GenerateAlerts ==
  /\ pc = "start"
  /\ \E threshold_crimes \in {2, 3}, threshold_increase \in {Frac(3, 10), Frac(1, 2)} :
       \E bairros_unicos \in unique(df_crimes) :
         result' = [raised |-> FALSE,
                    alerts |-> generate_alerts(df_crimes, threshold_crimes,
                                               threshold_increase, bairros_unicos),
                    threshold_crimes |-> threshold_crimes,
                    threshold_increase |-> threshold_increase,
                    bairros_unicos |-> bairros_unicos]
  /\ pc' = "alerts"
  /\ UNCHANGED <<df_crimes, df_operacoes, bairro, bairros_selecionados, geojson_data, df_seguranca>>

NextAlerts == GenerateAlerts

SpecAlerts == InitAlerts /\ [][NextAlerts]_vars

\* the rank of a priority in the order Crítica, Alta, Média
prioridade_rank(p) == IF p = "Crítica" THEN 0 ELSE IF p = "Alta" THEN 1 ELSE IF p = "Média" THEN 2 ELSE 3

\* the place of an alert in the order of generation: the place of its name
\* in the order of the names, then the order of the three checks
geracao(a) ==
  LET lugar == CHOOSE i \in DOMAIN result.bairros_unicos : result.bairros_unicos[i] = a.bairro
      tipo == IF a.tipo = "Volume Alto" THEN 1 ELSE IF a.tipo = "Aumento Significativo" THEN 2 ELSE 3
  IN  3 * lugar + tipo

\* the latest date of the table
ultima_data == CHOOSE d \in {r.Data_Registro : r \in DOMAIN df_crimes.rows} :
                 \A r \in DOMAIN df_crimes.rows : r.Data_Registro <= d

\* the records of the name from day lo to day hi
registos_entre(nome, lo, hi) ==
  conta_em(df_crimes.rows,
           {r \in DOMAIN df_crimes.rows :
              r.bairro = nome /\ lo <= r.Data_Registro /\ r.Data_Registro <= hi})

tem_alerta(nome, tipo) ==
  \E i \in DOMAIN result.alerts : result.alerts[i].bairro = nome /\ result.alerts[i].tipo = tipo

\* C29: the alerts are in the order Crítica, Alta, Média, those of one
\* priority in the order of their generation; a neighbourhood has at most one
\* alert of a type, a 'Volume Alto' alert exactly when its records of the
\* last 30 days are threshold_crimes or more, and an 'Aumento Significativo'
\* alert exactly when it has records in the 30 days before and the relative
\* increase is threshold_increase or more
C29_AlertsOrdered ==
  pc = "alerts" =>
    LET alerts == result.alerts
        nomes == {r.bairro : r \in {x \in DOMAIN df_crimes.rows : ~pd_isna(x.bairro)}}
    IN  /\ \A i, j \in DOMAIN alerts :
             i < j =>
               /\ prioridade_rank(alerts[i].prioridade) <= prioridade_rank(alerts[j].prioridade)
               /\ alerts[i].prioridade = alerts[j].prioridade
                    => geracao(alerts[i]) < geracao(alerts[j])
        /\ \A i, j \in DOMAIN alerts :
             (alerts[i].bairro = alerts[j].bairro /\ alerts[i].tipo = alerts[j].tipo) => i = j
        /\ \A i \in DOMAIN alerts : alerts[i].bairro \in nomes
        /\ \A nome \in nomes :
             LET recentes == registos_entre(nome, ultima_data - 30, ultima_data)
                 anteriores == registos_entre(nome, ultima_data - 60, ultima_data - 31)
             IN  /\ tem_alerta(nome, "Volume Alto") <=> recentes >= result.threshold_crimes
                 /\ tem_alerta(nome, "Aumento Significativo")
                      <=> /\ anteriores > 0
                          /\ (recentes - anteriores) * result.threshold_increase[2]
                               >= result.threshold_increase[1] * anteriores

\* the sort has moved alerts: a Crítica alert generated last stands first,
\* before alerts of the two other priorities
C29_Witness ==
  /\ pc = "alerts"
  /\ Len(result.alerts) >= 4
  /\ result.alerts[1].prioridade = "Crítica"
  /\ \A i \in DOMAIN result.alerts : geracao(result.alerts[i]) <= geracao(result.alerts[1])
  /\ \E i \in DOMAIN result.alerts : result.alerts[i].prioridade = "Alta"
  /\ \E i \in DOMAIN result.alerts : result.alerts[i].prioridade = "Média"

(***************************************************************************)
(* load_neighborhood_stats                                                 *)
(***************************************************************************)
\* a dict from mapped names to counts is a function; {} is the empty one
\* mapped_stats[mapped_name] = valor
mapped_assign(mapped_stats, mapped_name, valor) ==
  [k \in DOMAIN mapped_stats \cup {mapped_name} |->
     IF k = mapped_name THEN valor ELSE mapped_stats[k]]

\* mapped_stats[mapped_name] += count when the key is there, = count when not
mapped_add(mapped_stats, mapped_name, count) ==
  [k \in DOMAIN mapped_stats \cup {mapped_name} |->
     IF k = mapped_name
       THEN (IF k \in DOMAIN mapped_stats THEN mapped_stats[k] + count ELSE count)
       ELSE mapped_stats[k]]

\* the loop over df_seguranca.iterrows()
RECURSIVE index_loop(_, _)
index_loop(rows, mapped_stats) ==
  IF rows = <<>> THEN mapped_stats
  ELSE index_loop(Tail(rows),
                  mapped_assign(mapped_stats, map_bairro_name(Head(rows).bairro),
                                Head(rows).total_crimes))

\* df['bairro'].value_counts().to_dict(): the records of every name that
\* is not missing
value_counts(df) ==
  [nome \in {r.bairro : r \in {x \in DOMAIN df.rows : ~pd_isna(x.bairro)}} |->
     conta_em(df.rows, {r \in DOMAIN df.rows : r.bairro = nome})]

\* the loop over stats.items(), the names in nomes still to come
RECURSIVE fallback_loop(_, _, _)
fallback_loop(stats, nomes, mapped_stats) ==
  IF nomes = {} THEN mapped_stats
  ELSE LET nome == CHOOSE n \in nomes : TRUE
       IN  fallback_loop(stats, nomes \ {nome},
                         mapped_add(mapped_stats, map_bairro_name(nome), stats[nome]))

\* load_neighborhood_stats(), with the tables its two loaders return
load_neighborhood_stats(seguranca, df) ==
  IF seguranca.rows # <<>>
    THEN IF {"bairro", "total_crimes"} \subseteq seguranca.columns
           THEN [raised |-> FALSE, mapped_stats |-> index_loop(seguranca.rows, <<>>)]
           \* row['bairro'] raises KeyError: st.error and {}
           ELSE [raised |-> TRUE, mapped_stats |-> <<>>]
  ELSE IF df_empty(df) THEN [raised |-> FALSE, mapped_stats |-> <<>>]
  ELSE IF "bairro" \notin df.columns THEN [raised |-> FALSE, mapped_stats |-> <<>>]
  ELSE LET stats == value_counts(df)
       IN  [raised |-> FALSE, mapped_stats |-> fallback_loop(stats, DOMAIN stats, <<>>)]

IndexRows == 3
IndexCount == 2
LoadCopies == 2

\* the names of the rows: an alias and the canonical spelling of one
\* neighbourhood, and another neighbourhood
IndexNames ==
  {Str("CENTRO", "title", FALSE), CentroHistorico, Str("RESTINGA", "title", FALSE)}

\* the index files: up to IndexRows rows of a name and a count
IndexTables ==
  {[columns |-> {"bairro", "total_crimes"}, rows |-> rows] :
     rows \in UNION {[1..n -> [bairro : IndexNames, total_crimes : 1..IndexCount]] :
                       n \in 0..IndexRows}}

\* the crime tables: records under the alias, under the canonical spelling
\* in title case and padded upper case, under another name and without name
LoadTables ==
  {Frame(CrimeColumns,
         Copies(Crime(Str("CENTRO", "title", FALSE), Furto, Hoje, 0, 0, 0, 0, 0, "Nenhuma"), a)
           (+) Copies(Crime(CentroHistorico, Furto, Hoje, 0, 0, 0, 0, 0, "Nenhuma"), b)
           (+) Copies(Crime(Str("CENTRO HISTÓRICO", "upper", TRUE), Furto, Hoje, 0, 0, 0, 0, 0, "Nenhuma"), c)
           (+) Copies(Crime(Str("RESTINGA", "title", FALSE), Furto, Hoje, 0, 0, 0, 0, 0, "Nenhuma"), d)
           (+) Copies(Crime(NaN, Furto, Hoje, 0, 0, 0, 0, 0, "Nenhuma"), e)) :
     a \in 0..LoadCopies, b \in 0..LoadCopies, c \in 0..1, d \in 0..1, e \in 0..1}

\* an index file, or no index file and a crime table
InitLoad ==
  /\ \/ df_seguranca \in IndexTables /\ df_crimes \in {EmptyFrame, Frame(CrimeColumns, EmptyBag)}
     \/ df_seguranca = NoIndex /\ df_crimes \in LoadTables
  /\ df_operacoes = NoFrame
  /\ bairro = NaN
  /\ bairros_selecionados = {}
  /\ geojson_data = GeoLoaded
  /\ pc = "start"
  /\ result = NoResult

\* a call of load_neighborhood_stats()
LoadNeighborhoodStats ==
  /\ pc = "start"
  /\ result' = load_neighborhood_stats(df_seguranca, df_crimes)
  /\ pc' = "loaded"
  /\ UNCHANGED <<df_crimes, df_operacoes, bairro, bairros_selecionados, geojson_data, df_seguranca>>

NextLoad == LoadNeighborhoodStats

SpecLoad == InitLoad /\ [][NextLoad]_vars

\* the sum of total_crimes over the rows of the sequence whose name maps to key
RECURSIVE soma_das_linhas(_, _)
soma_das_linhas(rows, key) ==
  IF rows = <<>> THEN 0
  ELSE (IF map_bairro_name(Head(rows).bairro) = key THEN Head(rows).total_crimes ELSE 0)
         + soma_das_linhas(Tail(rows), key)

\* the raw names and counts the call maps: the rows of the index, or the
\* records of the crime table that have a name
entrada_de(key) ==
  IF df_seguranca.rows # <<>>
    THEN soma_das_linhas(df_seguranca.rows, key)
    ELSE conta_em(df_crimes.rows,
                  {r \in DOMAIN df_crimes.rows :
                     ~pd_isna(r.bairro) /\ map_bairro_name(r.bairro) = key})

entrada_nomes ==
  IF df_seguranca.rows # <<>>
    THEN {map_bairro_name(df_seguranca.rows[i].bairro) : i \in DOMAIN df_seguranca.rows}
    ELSE {map_bairro_name(r.bairro) : r \in {x \in DOMAIN df_crimes.rows : ~pd_isna(x.bairro)}}

\* C30: the count stored for a canonical name is the sum of the counts of
\* all raw names that map to it, in the branch of the security index and in
\* the branch of the crime table, so that no count is lost
C30_CountsSummed ==
  (pc = "loaded" /\ ~result.raised) =>
    /\ DOMAIN result.mapped_stats = entrada_nomes
    /\ \A key \in DOMAIN result.mapped_stats : result.mapped_stats[key] = entrada_de(key)
====
